---- MODULE Spec2Model ----
(***************************************************************************)
(* Model of the job-completion core of src/anime_generator.py:             *)
(*   queue_prompt, get_media_outputs, wait_for_completion and the          *)
(*   generate_* operations that call them.                                 *)
(*   Further sections model media persistence and uploads, the job       *)
(*   templates, the endpoint setting, the OAuth and TOTP login routes,     *)
(*   and upsert_tags of src/utils/db.py.                                   *)
(*                                                                         *)
(* Time is counted in ticks of half a second (the poll interval).          *)
(***************************************************************************)
EXTENDS Integers, Sequences, FiniteSets, TLC

VARIABLES
    \* ---- get_media_outputs applied to one engine answer (SpecResolver) ----
    rPc,            \* "input": arguments and engine answers chosen; "done": resolved
    rPromptId,      \* prompt_id argument
    rTargets,       \* target_nodes argument (<<>> is None / empty)
    rKey,           \* media_key argument
    rPerJob,        \* the engine's answer to GET /history/{prompt_id}
    rFull,          \* the engine's answer to GET /history
    rResult,        \* what get_media_outputs did
    \* ---- one submission and one call of wait_for_completion (Spec) ----
    cOp,            \* the operation that runs: a generate_* or a direct watcher call
    qAnswer,        \* the engine's answer to POST /prompt
    qResult,        \* what queue_prompt did
    cOutcome,       \* how the operation ended before the watcher, "-" if it did not
    cResult,        \* how the operation ended after the watcher
    wPc,            \* position of wait_for_completion
    wArgs,          \* its arguments: prompt_id, max_wait, target_nodes, media_key
    now,            \* time.time(), in ticks
    start_time,     \* local start_time
    last_check,     \* local last_check
    media_items,    \* local media_items
    execution_completed, \* the flag on_message sets
    ws,             \* the WebSocketApp: [exists, conn, thread, closeCalled]
    wReturn,        \* the list wait_for_completion returned
    hist,           \* what happened in this call (read by the properties only)
    \* ---- media persistence and uploads (SpecMedia) ----
    pst,            \* the calls of persist_media_locally, by call
    written,        \* the files written under open(local_path, "wb"), with their writer
    uuids,          \* how many times uuid.uuid4() was drawn
    up,             \* one call of an upload entry point
    \* ---- the job templates (SpecTemplates) ----
    heap,           \* the inputs dicts of the workflows in memory, by reference
    jobs,           \* the calls of generate_*, by call
    \* ---- two watched jobs and the endpoint setting (SpecEndpoint) ----
    COMFYUI_URL,    \* the module global apply_comfy_endpoint sets
    watch,          \* the calls of wait_for_completion, by call
    \* ---- OAuth login with TOTP, one browser session (SpecAuth) ----
    TOTP_SECRETS,   \* the module dict of secrets, by normalized email
    session,        \* the Flask session of the client
    page,           \* the last response the client received
    known,          \* the secrets the client has been shown
    \* ---- the tags table of utils/db.py (SpecTags) ----
    tags,           \* the rows of the table, in id order
    latest,         \* the last dict upserted under each name (read by the properties only)
    upserted        \* what the last call of upsert_tags returned

rvars == <<rPc, rPromptId, rTargets, rKey, rPerJob, rFull, rResult>>

cvars == <<cOp, qAnswer, qResult, cOutcome, cResult>>

wvars == <<wPc, wArgs, now, start_time, last_check, media_items,
           execution_completed, ws, wReturn, hist>>

mvars == <<pst, written, uuids, up>>

tvars == <<heap, jobs>>

gvars == <<COMFYUI_URL, watch>>

avars == <<TOTP_SECRETS, session, page, known>>

dvars == <<tags, latest, upserted>>

xvars == <<avars, dvars>>

ovars == <<mvars, tvars, gvars, xvars>>

vars == <<rvars, cvars, wvars, ovars>>

-----------------------------------------------------------------------------
(* Engine data: JSON values of the history endpoints.                       *)

\* marks a key that a descriptor dict does not hold
Missing == "<missing>"
\* Python None passed where a string is expected
NoneValue == "<None>"

\* a media descriptor as the engine stores it: a dict (any of the three keys
\* may be missing), a bare string (kept in filename) or any other JSON value (a number, a list)
ItemDict ==
    [kind |-> "dict", filename |-> "x.png", subfolder |-> "sub", type |-> "temp", extra |-> FALSE]
\* a dict that also holds other keys (such as "format")
ItemDictFormat ==
    [kind |-> "dict", filename |-> "v.mp4", subfolder |-> Missing, type |-> "output", extra |-> TRUE]
ItemDictBare ==
    [kind |-> "dict", filename |-> Missing, subfolder |-> Missing, type |-> Missing, extra |-> FALSE]
ItemStr ==
    [kind |-> "str", filename |-> "y.png", subfolder |-> Missing, type |-> Missing, extra |-> FALSE]
ItemOther ==
    [kind |-> "other", filename |-> Missing, subfolder |-> Missing, type |-> Missing, extra |-> FALSE]

\* the value under a media key of a node output block: a JSON list or a scalar
ListValue(items) == [isList |-> TRUE, list |-> items]
ScalarValue(item) == [isList |-> FALSE, scalar |-> item]

\* an "outputs" dict is an ordered mapping node id -> block, kept as a sequence
\* of [node, block]; a block is a function from the keys it holds to values
HasNode(outputs, n) == \E i \in 1..Len(outputs) : outputs[i].node = n
NodeBlock(outputs, n) == outputs[CHOOSE i \in 1..Len(outputs) : outputs[i].node = n].block

InSeq(x, s) == \E i \in 1..Len(s) : s[i] = x

-----------------------------------------------------------------------------
(* get_media_outputs                                                        *)

DefaultTargetNodes == <<"19">>

\* target_nodes = target_nodes or ["19"]
target_nodes_or_default(target_nodes) ==
    IF target_nodes = <<>> THEN DefaultTargetNodes ELSE target_nodes

\* a mutant of possible_keys: a fallback key is put before the requested kind
possible_keys_fallback_first(media_key) ==
    IF media_key = "videos" THEN <<"video", "videos", "files", "images">>
    ELSE IF media_key = "images" THEN <<"image", "images", "files">>
    ELSE <<"videos", media_key, "images", "files">>

\* the ordered list of accepted keys
possible_keys(media_key) ==
    IF media_key = "videos" THEN <<"videos", "video", "files", "images">>
    ELSE IF media_key = "images" THEN <<"images", "image", "files">>
    ELSE <<media_key, "videos", "images", "files">>

NotFound == [found |-> FALSE]

\* if isinstance(media, list): return media / return [media]
ReturnMedia(media) ==
    [found |-> TRUE, media |-> IF media.isList THEN media.list ELSE <<media.scalar>>]

\* for key in possible_keys: if key in node_outputs: return ...
RECURSIVE SearchKeys(_, _, _)
SearchKeys(node_outputs, keys, i) ==
    IF i > Len(keys) THEN NotFound
    ELSE IF keys[i] \in DOMAIN node_outputs THEN ReturnMedia(node_outputs[keys[i]])
    ELSE SearchKeys(node_outputs, keys, i + 1)

\* a mutant of SearchNodes: the keys are tried in order and, for each key,
\* the target nodes; i runs over the keys
RECURSIVE SearchNodesKeyMajor(_, _, _, _)
SearchNodesKeyMajor(outputs, targets, keys, i) ==
    IF i > Len(keys) THEN NotFound
    ELSE LET holders == {j \in 1..Len(targets) :
                            /\ HasNode(outputs, targets[j])
                            /\ keys[i] \in DOMAIN NodeBlock(outputs, targets[j])}
             first == CHOOSE j \in holders : \A j2 \in holders : j <= j2
         IN IF holders # {}
            THEN ReturnMedia(NodeBlock(outputs, targets[first])[keys[i]])
            ELSE SearchNodesKeyMajor(outputs, targets, keys, i + 1)

\* for node_id in target_nodes: if node_id in outputs: <search its keys>
RECURSIVE SearchNodes(_, _, _, _)
SearchNodes(outputs, targets, keys, i) ==
    IF i > Len(targets) THEN NotFound
    ELSE LET hit == IF HasNode(outputs, targets[i])
                    THEN SearchKeys(NodeBlock(outputs, targets[i]), keys, 1)
                    ELSE NotFound
         IN IF hit.found THEN hit ELSE SearchNodes(outputs, targets, keys, i + 1)

\* candidates: history_data itself when it holds "outputs", then
\* history_data[prompt_id] when that is a dict
Candidates(prompt_id, data) ==
    (IF data.hasTop THEN <<[hasOutputs |-> TRUE, outputs |-> data.top]>> ELSE <<>>)
    \o (IF prompt_id \in DOMAIN data.byId THEN <<data.byId[prompt_id]>> ELSE <<>>)

\* for candidate in candidates: if "outputs" not in candidate: continue ...
RECURSIVE SearchCandidates(_, _, _, _)
SearchCandidates(cands, targets, keys, i) ==
    IF i > Len(cands) THEN NotFound
    ELSE LET hit == IF cands[i].hasOutputs
                    THEN SearchNodes(cands[i].outputs, targets, keys, 1)
                    ELSE NotFound
         IN IF hit.found THEN hit ELSE SearchCandidates(cands, targets, keys, i + 1)

\* the inner try block around GET /history/{prompt_id}:
\*   "return"    a match was returned
\*   "fallback"  nothing matched, status # 200, or a RequestException was caught
\*   "exception" another exception left the inner try: a "malformed" answer is
\*               a 200 body whose shape the code does not expect (a list, or
\*               "outputs" or a node block that is not a dict), which raises
\*               TypeError or AttributeError
PerJobLookup(prompt_id, targets, keys, resp) ==
    CASE resp.status = "transport_error" -> [outcome |-> "fallback"]
      [] resp.status = "malformed" -> [outcome |-> "exception"]
      [] resp.status = "http_error" -> [outcome |-> "fallback"]
      [] OTHER ->
            LET hit == SearchCandidates(Candidates(prompt_id, resp.data), targets, keys, 1)
            IN IF hit.found THEN [outcome |-> "return", media |-> hit.media]
               ELSE [outcome |-> "fallback"]

\* if prompt_id in history: ... if "outputs" in prompt_data: <search>
DirectLookup(prompt_id, history, targets, keys) ==
    IF prompt_id \in DOMAIN history /\ history[prompt_id].hasOutputs
    THEN SearchNodes(history[prompt_id].outputs, targets, keys, 1)
    ELSE NotFound

\* for node_id, node_data in value["outputs"].items(): if node_id in target_nodes
RECURSIVE ScanOutputs(_, _, _, _)
ScanOutputs(outputs, targets, keys, i) ==
    IF i > Len(outputs) THEN NotFound
    ELSE LET hit == IF InSeq(outputs[i].node, targets)
                    THEN SearchKeys(outputs[i].block, keys, 1)
                    ELSE NotFound
         IN IF hit.found THEN hit ELSE ScanOutputs(outputs, targets, keys, i + 1)

\* a mutant of LastResortScan: scans the outputs of every entry
LastResortScanAnyEntry(prompt_id, history, targets, keys) ==
    LET hits == {key \in DOMAIN history :
                    /\ history[key].hasOutputs
                    /\ ScanOutputs(history[key].outputs, targets, keys, 1).found}
    IN IF hits = {} THEN NotFound
       ELSE ScanOutputs(history[CHOOSE key \in hits : TRUE].outputs, targets, keys, 1)

\* for key, value in history.items(): if key == prompt_id and ... "outputs" in value
LastResortScan(prompt_id, history, targets, keys) ==
    IF \E key \in DOMAIN history : key = prompt_id /\ history[key].hasOutputs
    THEN ScanOutputs(history[prompt_id].outputs, targets, keys, 1)
    ELSE NotFound

\* the code after the inner try: GET /history, direct lookup, last-resort scan
FullHistoryLookup(prompt_id, targets, keys, resp) ==
    CASE resp.status \in {"transport_error", "malformed"} -> [outcome |-> "exception"]
      [] resp.status = "http_error" -> [outcome |-> "none"]
      [] OTHER ->
            LET direct == DirectLookup(prompt_id, resp.data, targets, keys)
                scan == LastResortScan(prompt_id, resp.data, targets, keys)
            IN IF direct.found THEN [outcome |-> "return", media |-> direct.media]
               ELSE IF scan.found THEN [outcome |-> "return", media |-> scan.media]
               ELSE [outcome |-> "none"]

\* what a call of get_media_outputs did: kind "list" (media returned), "none"
\* (None returned) or "raise"; full tells whether GET /history was requested
ResultList(media, full) == [kind |-> "list", media |-> media, full |-> full]
ResultNone(full) == [kind |-> "none", media |-> <<>>, full |-> full]
ResultRaise(full) == [kind |-> "raise", media |-> <<>>, full |-> full]

\* a mutant of outer_except: the handler lets the exception go
outer_except_reraise(full) == ResultRaise(full)

\* except Exception as e: ... return None
outer_except(full) == ResultNone(full)

get_media_outputs(prompt_id, target_nodes, media_key, perJob, full) ==
    LET targets == target_nodes_or_default(target_nodes)
        keys == possible_keys(media_key)
        first == PerJobLookup(prompt_id, targets, keys, perJob)
        second == FullHistoryLookup(prompt_id, targets, keys, full)
    IN CASE first.outcome = "return" -> ResultList(first.media, FALSE)
         [] first.outcome = "exception" -> outer_except(FALSE)
         [] OTHER ->
               CASE second.outcome = "return" -> ResultList(second.media, TRUE)
                 [] second.outcome = "exception" -> outer_except(TRUE)
                 [] OTHER -> ResultNone(TRUE)

-----------------------------------------------------------------------------
(* The engine answers get_media_outputs is applied to.                      *)

\* at most this many media cells (node, key, value) in the engine's answers
MaxCells == 2

OwnId == "abc123"
OtherId == "zzz999"
Nodes == {"19", "94"}
\* the order in which the engine lists the nodes of an "outputs" dict
NodeOrder == <<"19", "94">>
\* the media keys the engine may use in a node output block
DataKeys == {"images", "image", "files", "videos", "video"}
\* the keys used when several containers hold media at once
CascadeKeys == {"images", "video"}
Values == {ListValue(<<>>), ListValue(<<ItemDict>>), ScalarValue(ItemStr)}
\* the values used when several containers hold media at once
CascadeValues == {ListValue(<<>>), ListValue(<<ItemDict>>)}

\* where a job record can sit: the top level of the per-job answer, the
\* per-job answer keyed by the job id, the full history under the job's id
\* and the full history under another job's id
Containers == {"top", "keyed", "own", "other"}
NoNode == "<no node>"

\* a cell puts a value under a key of a node of a container; a bare cell
\* makes the container a record without media ({"outputs": {}} at the top
\* level, a dict without "outputs" elsewhere)
Cells(containers, keys, values) ==
    [c : containers, node : Nodes, key : keys, val : values]
    \cup [c : containers, node : {NoNode}, key : {Missing}, val : {ListValue(<<>>)}]

Clash(x, y) ==
    /\ x.c = y.c
    /\ \/ x.node = NoNode
       \/ y.node = NoNode
       \/ (x.node = y.node /\ x.key = y.key)

RECURSIVE CellSets(_, _)
CellSets(cells, n) ==
    IF n = 0 THEN {{}}
    ELSE LET smaller == CellSets(cells, n - 1)
         IN smaller \cup
            {p[1] \cup {p[2]} :
                p \in {q \in smaller \X cells : \A y \in q[1] : ~Clash(q[2], y)}}

\* the engine states: media in one container under any keys, or media
\* spread over the containers under the cascade keys
EngineStates ==
    CellSets(Cells(Containers, CascadeKeys, CascadeValues), MaxCells)
    \cup UNION {CellSets(Cells({c}, DataKeys, Values), MaxCells) : c \in {"top", "own"}}

In(S, c) == {x \in S : x.c = c}

BlockOf(S, c, n) ==
    LET here == {x \in In(S, c) : x.node = n}
    IN [k \in {x.key : x \in here} |-> (CHOOSE x \in here : x.key = k).val]

OutputsOf(S, c) ==
    LET order == SelectSeq(NodeOrder, LAMBDA n : \E x \in In(S, c) : x.node = n)
    IN [i \in 1..Len(order) |-> [node |-> order[i], block |-> BlockOf(S, c, order[i])]]

Bare(S, c) == \E x \in In(S, c) : x.node = NoNode

\* a job record: a dict with or without "outputs"
RecordOf(S, c) == [hasOutputs |-> ~Bare(S, c), outputs |-> OutputsOf(S, c)]

PerJobData(S) ==
    [hasTop |-> In(S, "top") # {},
     top |-> OutputsOf(S, "top"),
     byId |-> [id \in (IF In(S, "keyed") # {} THEN {OwnId} ELSE {}) |-> RecordOf(S, "keyed")]]

FullData(S) ==
    [id \in (IF In(S, "own") # {} THEN {OwnId} ELSE {})
            \cup (IF In(S, "other") # {} THEN {OtherId} ELSE {})
        |-> IF id = OwnId THEN RecordOf(S, "own") ELSE RecordOf(S, "other")]

EmptyPerJobData == [hasTop |-> FALSE, top |-> <<>>, byId |-> <<>>]
FailStatuses == {"http_error", "transport_error", "malformed"}

\* an endpoint that fails carries no data
PerJobAnswers(S) ==
    {[status |-> "ok", data |-> PerJobData(S)]}
    \cup (IF In(S, "top") \cup In(S, "keyed") = {}
          THEN {[status |-> s, data |-> EmptyPerJobData] : s \in FailStatuses} ELSE {})

FullAnswers(S) ==
    {[status |-> "ok", data |-> FullData(S)]}
    \cup (IF In(S, "own") \cup In(S, "other") = {}
          THEN {[status |-> s, data |-> <<>>] : s \in FailStatuses} ELSE {})

TargetChoices == {<<>>, <<"19", "94">>, <<"94", "19">>}
MediaKeyChoices == {"images", "videos", NoneValue}

NoResult == [kind |-> "pending", media |-> <<>>, full |-> FALSE]

-----------------------------------------------------------------------------
(* queue_prompt and the operations that submit a job                        *)

\* the engine's answers to POST /prompt: an HTTP answer (status, body) or no
\* answer at all
QueueAnswers ==
    [kind : {"http"}, status : {"200", "500"},
     body : {"with_id", "without_id", "unparsable"}]
    \cup {[kind |-> "transport_error", status |-> NoneValue, body |-> NoneValue]}

QueueRaise(exc, status, text) ==
    [kind |-> "raise", exc |-> exc, status |-> status, text |-> text, hasId |-> FALSE]

\* a mutant of queue_prompt: a rejected submission is swallowed and an
\* empty answer returned
queue_prompt_swallow(answer) ==
    IF answer.kind = "http" /\ answer.status = "200" /\ answer.body = "with_id"
    THEN [kind |-> "return", exc |-> "-", status |-> answer.status,
          text |-> answer.body, hasId |-> TRUE]
    ELSE [kind |-> "return", exc |-> "-", status |-> answer.status,
          text |-> answer.body, hasId |-> FALSE]

\* status and text of a raised error are what its message carries
queue_prompt(answer) ==
    IF answer.kind = "transport_error"
    THEN QueueRaise("RequestException", NoneValue, NoneValue)
    ELSE IF answer.status = "200"
         THEN IF answer.body = "unparsable"
              THEN QueueRaise("JSONDecodeError", NoneValue, NoneValue)
              ELSE [kind |-> "return", exc |-> "-", status |-> answer.status,
                    text |-> answer.body, hasId |-> answer.body = "with_id"]
         ELSE QueueRaise("Exception", answer.status, answer.body)

Operations == {"generate_images", "generate_image_edit", "generate_video_from_image"}

\* target_nodes and media_key each operation passes to wait_for_completion
OpTargets(op) ==
    CASE op = "generate_images" -> <<>>
      [] op = "generate_image_edit" -> <<"60">>
      [] OTHER -> <<"108", "94">>

OpMediaKey(op) == IF op = "generate_video_from_image" THEN "videos" ELSE "images"

\* what the operation does with the result of queue_prompt:
\*   "watch"           it calls wait_for_completion with prompt_id
\*   "failure_result"  generate_images caught the exception and returns success=False
\*   "raised"          the exception leaves the operation
AfterQueue(op, r) ==
    IF r.kind = "raise"
    THEN [next |-> IF op = "generate_images" THEN "failure_result" ELSE "raised",
          prompt_id |-> NoneValue]
    ELSE IF r.hasId THEN [next |-> "watch", prompt_id |-> OwnId]
    ELSE IF op = "generate_video_from_image" THEN [next |-> "watch", prompt_id |-> NoneValue]
    ELSE [next |-> IF op = "generate_images" THEN "failure_result" ELSE "raised",
          prompt_id |-> NoneValue]

-----------------------------------------------------------------------------
(* wait_for_completion                                                      *)

\* time in ticks of half a second
CheckInterval == 1
PollSleepTicks == 1
GraceSleepTicks == 4
ConnectSleepTicks == 2

\* the largest max_wait of the model, in ticks; the operations pass it in
\* place of the default of 300 seconds
MaxWait == 2
\* a max_wait that outlasts a grace sleep and the poll sleep after it
LongWait == GraceSleepTicks + PollSleepTicks + 1
\* a resolver call takes up to this many ticks
MaxCallTicks == 1
\* a resolver call answers at once or takes its longest
CallTicks == {0, MaxCallTicks}
\* time.time() when the operation starts
ClockStart == 3
\* no run of the watcher reaches this time
MaxClock ==
    ClockStart + ConnectSleepTicks + MaxWait + LongWait + 3 * GraceSleepTicks + 4 * MaxCallTicks + 2

NoWs == [exists |-> FALSE, conn |-> "unopened", thread |-> "none", closeCalled |-> FALSE]

\* a mutant of CloseWs: the connection is left as it is
CloseWsSkipped(w) == w

\* ws.close() under "if ws:" - it ends run_forever and closes the socket
CloseWs(w) ==
    IF w.exists
    THEN [w EXCEPT !.closeCalled = TRUE,
                   !.conn = IF @ = "open" THEN "closed" ELSE @,
                   !.thread = IF @ = "running" THEN "ended" ELSE @]
    ELSE w

\* the messages of the event stream: an empty message, text that is not
\* JSON, JSON that is no object, or a JSON object with a type and a data
\* field that is absent, null or an object with a node (NoneValue: absent
\* or null, "": empty)
Messages(targets) ==
    {[form |-> f, type |-> "-", data |-> "absent", node |-> NoneValue] :
        f \in {"empty", "unparsable", "array"}}
    \cup [form : {"json"},
          type : {"executed", "execution_cached", "executing", "progress"},
          data : {"object"},
          node : {NoneValue, "", targets[1], "7"}]
    \cup [form : {"json"},
          type : {"executed", "execution_cached", "executing", "progress"},
          data : {"absent", "null"},
          node : {NoneValue}]

\* a mutant of on_message: executed counts whatever its node
on_message_any_executed(flag, msg, targets) ==
    IF msg.form # "json" THEN flag
    ELSE IF msg.type \in {"executed", "execution_cached"} THEN TRUE
    ELSE IF msg.type = "executing"
         THEN (IF msg.data # "null" /\ msg.node \in {NoneValue, ""} THEN TRUE ELSE flag)
    ELSE flag

\* the value of execution_completed after on_message; data.get("data", {})
\* is None for a null data field and .get on it raises, which lines 652-653
\* catch
on_message(flag, msg, targets) ==
    IF msg.form # "json" THEN flag
    ELSE IF msg.type = "executed"
         THEN (IF msg.data # "null" /\ msg.node \notin {NoneValue, ""}
                  /\ InSeq(msg.node, targets)
               THEN TRUE ELSE flag)
    ELSE IF msg.type = "execution_cached" THEN TRUE
    ELSE IF msg.type = "executing"
         THEN (IF msg.data # "null" /\ msg.node \in {NoneValue, ""} THEN TRUE ELSE flag)
    ELSE flag

\* the three kinds of message that stand for completion: executed of a
\* target node, execution_cached, executing with an empty or absent node
CompletionMessage(msg, targets) ==
    /\ msg.form = "json"
    /\ \/ msg.type = "executed" /\ msg.node \notin {NoneValue, ""} /\ InSeq(msg.node, targets)
       \/ msg.type = "execution_cached"
       \/ msg.type = "executing" /\ msg.node \in {NoneValue, ""}

\* item.get(key, default)
GetOr(value, default) == IF value = Missing THEN default ELSE value

NormalizeItem(item) ==
    IF item.kind = "dict"
    THEN [kind |-> "dict", filename |-> GetOr(item.filename, ""),
          subfolder |-> GetOr(item.subfolder, ""), type |-> GetOr(item.type, "output"),
          extra |-> FALSE]
    ELSE [kind |-> "dict", filename |-> item.filename, subfolder |-> "",
          type |-> "output", extra |-> FALSE]

\* valid_media: dict and str items normalized, other items left out
RECURSIVE Normalize(_)
Normalize(items) ==
    IF items = <<>> THEN <<>>
    ELSE (IF Head(items).kind \in {"dict", "str"} THEN <<NormalizeItem(Head(items))>> ELSE <<>>)
         \o Normalize(Tail(items))

\* a mutant of ImmediateHit: the immediate result counts only once the
\* listener has signalled
ImmediateHitWhenSignalled(media_info, valid_media) ==
    media_info # <<>> /\ valid_media # <<>> /\ execution_completed

\* if media_info and len(media_info) > 0: ... if valid_media:
ImmediateHit(media_info, valid_media) == media_info # <<>> /\ valid_media # <<>>

\* a mutant of LoopCondition: the loop runs once more at elapsed = max_wait
LoopConditionInclusive(t, st, max_wait) == t - st <= max_wait

\* a mutant of LoopCondition: max_wait is not looked at
LoopConditionForever(t, st, max_wait) == TRUE

\* while time.time() - start_time < max_wait
LoopCondition(t, st, max_wait) == t - st < max_wait

\* the answers of the two history endpoints at one resolver call of a watcher
\* with these target nodes: failures, and media under a target node or under
\* another node, at the top level of the per-job answer or in the full history
OtherNode == "7"
AnswerValues ==
    {ListValue(<<>>), ListValue(<<ItemDict>>), ListValue(<<ItemStr, ItemDictBare>>),
     ListValue(<<ItemOther>>), ListValue(<<ItemOther, ItemDict>>),
     ScalarValue(ItemDictFormat)}

OneNode(n, k, v) == <<[node |-> n, block |-> (k :> v)]>>
OkPerJob(data) == [status |-> "ok", data |-> data]
FailedPerJob(s) == [status |-> s, data |-> EmptyPerJobData]
TopAnswer(n, k, v) ==
    [perJob |-> OkPerJob([hasTop |-> TRUE, top |-> OneNode(n, k, v), byId |-> <<>>]),
     full |-> [status |-> "ok", data |-> <<>>]]
FullAnswer(n, k, v) ==
    [perJob |-> FailedPerJob("http_error"),
     full |-> [status |-> "ok",
               data |-> (OwnId :> [hasOutputs |-> TRUE, outputs |-> OneNode(n, k, v)])]]

EngineAnswers(targets) ==
    {[perJob |-> FailedPerJob("transport_error"), full |-> [status |-> "transport_error", data |-> <<>>]],
     [perJob |-> FailedPerJob("http_error"), full |-> [status |-> "ok", data |-> <<>>]],
     [perJob |-> FailedPerJob("malformed"), full |-> [status |-> "ok", data |-> <<>>]],
     [perJob |-> OkPerJob(EmptyPerJobData), full |-> [status |-> "http_error", data |-> <<>>]],
     TopAnswer(OtherNode, "images", ListValue(<<ItemDict>>)),
     TopAnswer(targets[1], "videos", ListValue(<<ItemDict>>)),
     FullAnswer(targets[Len(targets)], "images", ListValue(<<ItemStr, ItemDictBare>>)),
     FullAnswer(targets[Len(targets)], "images", ListValue(<<>>))}
    \cup {TopAnswer(targets[1], "images", v) : v \in AnswerValues}

NoArgs == [prompt_id |-> NoneValue, max_wait |-> 0, target_nodes |-> <<>>, media_key |-> "images"]

NoHist ==
    [calls |-> 0,            \* resolver calls made
     firstFlag |-> "-",      \* execution_completed at the first resolver call
     firstTime |-> 0,        \* time of the first resolver call
     firstValid |-> <<>>,    \* valid_media of the first resolver call
     firstRaw |-> <<>>,      \* media_info of the first resolver call
     produced |-> FALSE,     \* some resolver call returned a non-empty list
     path |-> "-",           \* "immediate" or "loop" after the first check
     left |-> "-",           \* how the loop was left: "break" or "timeout"
     afterLoop |-> 0,        \* resolver calls made after the loop was left
     bodyElapsed |-> -1,     \* elapsed time at the last loop test that passed
     callTime |-> 0,         \* time when wait_for_completion was called
     connectSlept |-> FALSE, \* the sleep after thread.start() was taken
     graceCalls |-> 0,       \* resolver calls made after a grace sleep in the loop
     lastMedia |-> <<>>,     \* media_info of the last resolver call
     lastWhere |-> "-",      \* where it was made: "immediate", "poll", "grace", "post"
     listenerEnded |-> FALSE, \* run_forever ended before the watcher closed it
     raisedBy |-> "-",       \* what raised: "listener", "resolver" or "capitalize"
     loopValidAt |-> 0,      \* the number of the first call in the loop with valid_media, or 0
     completion |-> FALSE,   \* a completion message arrived
     completionRead |-> FALSE] \* one whose data field is absent or an object

\* one call of get_media_outputs by the watcher: media_info ("none" as <<>>)
\* and whether the call raised
WatcherResolve(ans) ==
    get_media_outputs(wArgs.prompt_id, wArgs.target_nodes, wArgs.media_key, ans.perJob, ans.full)

Counted(h, res, where) ==
    [h EXCEPT !.calls = @ + 1, !.produced = @ \/ res.media # <<>>,
              !.graceCalls = IF where = "grace" THEN @ + 1 ELSE @,
              !.lastMedia = res.media, !.lastWhere = where,
              !.loopValidAt = IF @ = 0 /\ where \in {"poll", "grace"}
                                 /\ Normalize(res.media) # <<>>
                              THEN h.calls + 1 ELSE @,
              !.raisedBy = IF res.kind = "raise" THEN "resolver" ELSE @]

\* wait_for_completion is entered: lines 634-636
Enter(op, args) ==
    /\ cOp' = op
    /\ wPc' = "connect"
    /\ wArgs' = [args EXCEPT !.target_nodes = target_nodes_or_default(@)]
    /\ media_items' = <<>>
    /\ execution_completed' = FALSE
    /\ hist' = [NoHist EXCEPT !.callTime = now]
    /\ UNCHANGED <<now, start_time, last_check, ws, wReturn>>

\* a generate_* operation submits its job and goes on as AfterQueue says
Submit ==
    /\ cOp = "-"
    /\ \E op \in Operations, answer \in QueueAnswers :
          LET r == queue_prompt(answer)
              after == AfterQueue(op, r)
          IN /\ qAnswer' = answer
             /\ qResult' = r
             /\ IF after.next = "watch"
                THEN /\ cOutcome' = "-"
                     /\ Enter(op, [prompt_id |-> after.prompt_id, max_wait |-> MaxWait,
                                   target_nodes |-> OpTargets(op),
                                   media_key |-> OpMediaKey(op)])
                ELSE /\ cOutcome' = after.next
                     /\ cOp' = op
                     /\ UNCHANGED wvars
    /\ UNCHANGED <<ovars, rvars, cResult>>

\* the arguments of a direct call: any of them with a short max_wait, and
\* the default target_nodes and media_key with the long one
DirectCalls ==
    [max_wait : 0..MaxWait, target_nodes : {<<>>, <<"94", "19">>},
     media_key : {"images", "videos", NoneValue}]
    \cup {[max_wait |-> LongWait, target_nodes |-> <<>>, media_key |-> "images"]}

\* wait_for_completion called on its own, with any arguments
DirectCall ==
    /\ cOp = "-"
    /\ \E call \in DirectCalls :
          Enter("wait_for_completion",
                [prompt_id |-> OwnId, max_wait |-> call.max_wait,
                 target_nodes |-> call.target_nodes, media_key |-> call.media_key])
    /\ UNCHANGED <<ovars, rvars, qAnswer, qResult, cOutcome, cResult>>

\* a mutant of connect_except: a failure to build or start the listener
\* leaves wait_for_completion
connect_except_reraise(outcome) == IF outcome = "started" THEN "continue" ELSE "raise"

\* lines 692-694: except Exception: print, and go on without the listener
connect_except(outcome) == "continue"

\* lines 664-694: the WebSocketApp is built and its thread started; either
\* may fail, and only a started thread is followed by the sleep
Connect ==
    /\ wPc = "connect"
    /\ \E outcome \in {"no_ws", "no_thread", "started"} :
          /\ ws' = [exists |-> outcome # "no_ws", conn |-> "unopened",
                    thread |-> IF outcome = "started" THEN "running" ELSE "none",
                    closeCalled |-> FALSE]
          /\ now' = IF outcome = "started" THEN now + ConnectSleepTicks ELSE now
          /\ IF connect_except(outcome) = "raise"
             THEN /\ wPc' = "raised"
                  /\ hist' = [hist EXCEPT !.raisedBy = "listener"]
             ELSE /\ wPc' = "immediate"
                  /\ hist' = [hist EXCEPT !.connectSlept = (outcome = "started")]
    /\ UNCHANGED <<ovars, rvars, cvars, wArgs, start_time, last_check, media_items,
                   execution_completed, wReturn>>

\* the listener thread: run_forever opens the connection
ListenerOpen ==
    /\ ws.thread = "running"
    /\ ws.conn = "unopened"
    /\ ws' = [ws EXCEPT !.conn = "open"]
    /\ UNCHANGED <<ovars, rvars, cvars, wPc, wArgs, now, start_time, last_check, media_items,
                   execution_completed, wReturn, hist>>

\* what a message does: the flag after on_message, and what kind of
\* message it was
MessageEffect(msg, targets) ==
    [flag |-> on_message(execution_completed, msg, targets),
     completion |-> CompletionMessage(msg, targets),
     completionRead |-> CompletionMessage(msg, targets)
                        /\ (msg.type = "execution_cached" \/ msg.data # "null")]

\* the listener thread: a message arrives and on_message runs
ListenerMessage ==
    /\ ws.thread = "running"
    /\ ws.conn = "open"
    /\ \E effect \in {MessageEffect(msg, wArgs.target_nodes) :
                          msg \in Messages(wArgs.target_nodes)} :
          /\ execution_completed' = effect.flag
          /\ hist' = [hist EXCEPT !.completion = @ \/ effect.completion,
                                  !.completionRead = @ \/ effect.completionRead]
    /\ UNCHANGED <<ovars, rvars, cvars, wPc, wArgs, now, start_time, last_check, media_items,
                   ws, wReturn>>

\* the listener thread: run_forever ends (refused, error, closed by the engine)
ListenerEnd ==
    /\ ws.thread = "running"
    /\ ws' = [ws EXCEPT !.thread = "ended", !.conn = IF @ = "open" THEN "closed" ELSE @]
    /\ hist' = [hist EXCEPT !.listenerEnded = TRUE]
    /\ UNCHANGED <<ovars, rvars, cvars, wPc, wArgs, now, start_time, last_check, media_items,
                   execution_completed, wReturn>>

\* lines 697-726: start_time, last_check and the immediate check
ImmediateCheck ==
    /\ wPc = "immediate"
    /\ \E ans \in EngineAnswers(wArgs.target_nodes), d \in CallTicks :
          LET res == WatcherResolve(ans)
                   valid == Normalize(res.media)
              h == [Counted(hist, res, "immediate") EXCEPT
                        !.firstFlag = IF execution_completed THEN "set" ELSE "clear",
                        !.firstTime = now,
                        !.firstValid = valid,
                        !.firstRaw = res.media]
          IN /\ now + d <= MaxClock
             /\ start_time' = now
             /\ last_check' = 0
             /\ now' = now + d
             /\ IF res.kind = "raise"
                THEN /\ wPc' = "raised"
                     /\ hist' = h
                     /\ UNCHANGED <<ws, wReturn>>
                ELSE IF ImmediateHit(res.media, valid)
                THEN /\ hist' = [h EXCEPT !.path = "immediate",
                                          !.raisedBy = IF wArgs.media_key = NoneValue
                                                       THEN "capitalize" ELSE @]
                     /\ IF wArgs.media_key = NoneValue
                        THEN \* media_key.capitalize() raises AttributeError
                             /\ wPc' = "raised"
                             /\ UNCHANGED <<ws, wReturn>>
                        ELSE /\ ws' = CloseWs(ws)
                             /\ wReturn' = valid
                             /\ wPc' = "returned"
                ELSE /\ hist' = [h EXCEPT !.path = "loop"]
                     /\ wPc' = "poll"
                     /\ UNCHANGED <<ws, wReturn>>
    /\ UNCHANGED <<ovars, rvars, cvars, wArgs, media_items, execution_completed>>

\* a mutant of poll_break: media found in the loop ends it only once the
\* listener has signalled
poll_break_when_signalled(items, flag) == flag

\* lines 750-753: if len(media_items) >= 1: break / if execution_completed: break
poll_break(items, flag) == Len(items) >= 1 \/ flag

\* lines 728-754: the loop test and the periodic check
PollCheck ==
    /\ wPc = "poll"
    /\ IF ~LoopCondition(now, start_time, wArgs.max_wait)
       THEN /\ wPc' = "exit"
            /\ hist' = [hist EXCEPT !.left = "timeout"]
            /\ UNCHANGED <<now, last_check, media_items>>
       ELSE IF now - last_check >= CheckInterval
       THEN \E ans \in EngineAnswers(wArgs.target_nodes), d \in CallTicks :
               LET res == WatcherResolve(ans)
                   valid == Normalize(res.media)
                   h == [Counted(hist, res, "poll") EXCEPT !.bodyElapsed = now - start_time]
               IN /\ now + d <= MaxClock
                  /\ now' = now + d
                  /\ IF res.kind = "raise"
                     THEN /\ wPc' = "raised"
                          /\ hist' = h
                          /\ UNCHANGED <<last_check, media_items>>
                     ELSE IF res.media # <<>> /\ valid # <<>>
                     THEN /\ media_items' = valid
                          /\ IF poll_break(valid, execution_completed)
                             THEN /\ wPc' = "exit"
                                  /\ hist' = [h EXCEPT !.left = "break"]
                                  /\ UNCHANGED last_check
                             ELSE /\ last_check' = now + d
                                  /\ wPc' = "grace"
                                  /\ hist' = h
                     ELSE /\ last_check' = now + d
                          /\ wPc' = "grace"
                          /\ hist' = h
                          /\ UNCHANGED media_items
       ELSE /\ wPc' = "grace"
            /\ hist' = [hist EXCEPT !.bodyElapsed = now - start_time]
            /\ UNCHANGED <<now, last_check, media_items>>
    /\ UNCHANGED <<ovars, rvars, cvars, wArgs, start_time, execution_completed, ws, wReturn>>

\* lines 756-777: once the listener has signalled, a grace sleep and one more check
GraceCheck ==
    /\ wPc = "grace"
    /\ IF execution_completed
       THEN \E ans \in EngineAnswers(wArgs.target_nodes), d \in CallTicks :
               LET res == WatcherResolve(ans)
                   valid == Normalize(res.media)
                   h == Counted(hist, res, "grace")
               IN /\ now + GraceSleepTicks + d <= MaxClock
                  /\ now' = now + GraceSleepTicks + d
                  /\ IF res.kind = "raise"
                     THEN /\ wPc' = "raised"
                          /\ hist' = h
                          /\ UNCHANGED media_items
                     ELSE IF res.media # <<>> /\ valid # <<>>
                     THEN /\ media_items' = valid
                          /\ wPc' = "exit"
                          /\ hist' = [h EXCEPT !.left = "break"]
                     ELSE /\ wPc' = "sleep"
                          /\ hist' = h
                          /\ UNCHANGED media_items
       ELSE /\ wPc' = "sleep"
            /\ UNCHANGED <<now, media_items, hist>>
    /\ UNCHANGED <<ovars, rvars, cvars, wArgs, start_time, last_check, execution_completed,
                   ws, wReturn>>

\* line 779: time.sleep(0.5)
PollSleep ==
    /\ wPc = "sleep"
    /\ now + PollSleepTicks <= MaxClock
    /\ now' = now + PollSleepTicks
    /\ wPc' = "poll"
    /\ UNCHANGED <<ovars, rvars, cvars, wArgs, start_time, last_check, media_items,
                   execution_completed, ws, wReturn, hist>>

\* lines 781-798: the connection is closed; with no media yet, a last sleep
\* and a last resolver call, whose list is returned as it is
CloseAndReturn ==
    /\ wPc = "exit"
    /\ ws' = CloseWs(ws)
    /\ IF media_items = <<>>
       THEN \E ans \in EngineAnswers(wArgs.target_nodes), d \in CallTicks :
               LET res == WatcherResolve(ans)
                   h == [Counted(hist, res, "post") EXCEPT !.afterLoop = @ + 1]
               IN /\ now + GraceSleepTicks + d <= MaxClock
                  /\ now' = now + GraceSleepTicks + d
                  /\ hist' = h
                  /\ IF res.kind = "raise"
                     THEN /\ wPc' = "raised"
                          /\ UNCHANGED <<media_items, wReturn>>
                     ELSE /\ media_items' = res.media
                          /\ wReturn' = res.media
                          /\ wPc' = "returned"
       ELSE /\ wReturn' = media_items
            /\ wPc' = "returned"
            /\ UNCHANGED <<now, media_items, hist>>
    /\ UNCHANGED <<ovars, rvars, cvars, wArgs, start_time, last_check, execution_completed>>

\* what a generate_* operation hands to its caller: a result dict with its
\* success field and the length of its images or videos list, or an exception
NoOpResult == [kind |-> "-", success |-> FALSE, items |-> 0]
OpSuccess(n) == [kind |-> "result", success |-> TRUE, items |-> n]
OpFailure == [kind |-> "result", success |-> FALSE, items |-> 0]
OpRaise == [kind |-> "raise", success |-> FALSE, items |-> 0]

\* persist_media_locally as its caller sees it: [] for an empty list, and
\* else one record for each item, or the error of a failed download
persist_media_locally(media, downloads) ==
    IF media = <<>> THEN [kind |-> "return", items |-> 0]
    ELSE IF downloads = "ok" THEN [kind |-> "return", items |-> Len(media)]
    ELSE [kind |-> "raise", items |-> 0]

\* a mutant of after_wait: the lists are handed on without a look at their
\* length
after_wait_unchecked(op, raised, media, downloads) ==
    LET local == persist_media_locally(media, downloads)
        failed == IF op = "generate_images" THEN OpFailure ELSE OpRaise
    IN IF raised THEN failed
       ELSE IF op = "generate_video_from_image" THEN OpSuccess(Len(media))
       ELSE IF local.kind = "raise" THEN failed
       ELSE OpSuccess(local.items)

\* what follows wait_for_completion in each operation: lines 1080-1094
\* (except Exception: success False), 1169-1197 and 1266-1276
after_wait(op, raised, media, downloads) ==
    LET local == persist_media_locally(media, downloads)
    IN CASE op = "generate_images" ->
               IF raised \/ local.kind = "raise" \/ local.items = 0
               THEN OpFailure ELSE OpSuccess(local.items)
         [] op = "generate_image_edit" ->
               IF raised \/ media = <<>> \/ local.kind = "raise" \/ local.items = 0
               THEN OpRaise ELSE OpSuccess(local.items)
         [] OTHER ->
               IF raised \/ media = <<>> THEN OpRaise ELSE OpSuccess(Len(media))

\* the operation goes on after its call of wait_for_completion
AfterWait ==
    /\ cOp \in Operations
    /\ wPc \in {"returned", "raised"}
    /\ cResult = NoOpResult
    /\ \E downloads \in {"ok", "failed"} :
          cResult' = after_wait(cOp, wPc = "raised", wReturn, downloads)
    /\ UNCHANGED <<ovars, rvars, wvars, cOp, qAnswer, qResult, cOutcome>>

WatcherStep ==
    Connect \/ ImmediateCheck \/ PollCheck \/ GraceCheck \/ PollSleep \/ CloseAndReturn

-----------------------------------------------------------------------------
(* Paths: a text is a sequence of tokens, where "/" and "\\" are the        *)
(* separators, ".." and "." the dot names and any other token a run of      *)
(* ordinary characters; a path is a sequence of components below "/".       *)

\* os.path.abspath(OUTPUT_DIR)
OutputRoot == << <<"app">>, <<"output">> >>

\* the directories that exist: the output root and its ancestors
Dirs == {SubSeq(OutputRoot, 1, n) : n \in 0..Len(OutputRoot)}

\* os.path.sep and os.path.altsep of the two platforms
PathSeps(platform) == IF platform = "nt" THEN {"\\", "/"} ELSE {"/"}

\* text.split(sep): the runs of tokens between separators
RECURSIVE Components(_, _)
Components(text, seps) ==
    IF text = <<>> THEN << <<>> >>
    ELSE LET rest == Components(Tail(text), seps)
         IN IF Head(text) \in seps THEN << <<>> >> \o rest
            ELSE << <<Head(text)>> \o Head(rest) >> \o Tail(rest)

Parent(dir) == IF dir = <<>> THEN <<>> ELSE SubSeq(dir, 1, Len(dir) - 1)

\* os.path.normpath from a directory: "." and empty components are dropped,
\* ".." goes to the parent
RECURSIVE NormPath(_, _)
NormPath(dir, comps) ==
    IF comps = <<>> THEN dir
    ELSE IF Head(comps) \in {<<>>, <<".">>} THEN NormPath(dir, Tail(comps))
    ELSE IF Head(comps) = <<"..">> THEN NormPath(Parent(dir), Tail(comps))
    ELSE NormPath(Append(dir, Head(comps)), Tail(comps))

\* os.path.abspath(os.path.join(root, text)): an absolute text replaces root
AbsJoin(root, text, seps) ==
    IF text # <<>> /\ Head(text) \in seps
    THEN NormPath(<<>>, Components(text, seps))
    ELSE NormPath(root, Components(text, seps))

IsPrefix(a, b) == Len(a) <= Len(b) /\ SubSeq(b, 1, Len(a)) = a

\* candidate_path.startswith(output_root), a comparison of strings: the
\* last component of the root need only begin the component of the path
StartsWithRoot(path) ==
    LET n == Len(OutputRoot)
    IN /\ Len(path) >= n
       /\ SubSeq(path, 1, n - 1) = SubSeq(OutputRoot, 1, n - 1)
       /\ IsPrefix(OutputRoot[n], path[n])

\* the path lies strictly inside the output root
InsideRoot(path) == Len(path) > Len(OutputRoot) /\ IsPrefix(OutputRoot, path)

\* open(path, "wb") on POSIX: every component but the last is looked up in
\* the directories that exist, and the last names the file
RECURSIVE OpenWalk(_, _)
OpenWalk(dir, comps) ==
    IF Len(comps) = 1
    THEN IF Head(comps) \in {<<>>, <<".">>, <<"..">>}
         THEN [ok |-> FALSE, path |-> dir]
         ELSE [ok |-> TRUE, path |-> Append(dir, Head(comps))]
    ELSE IF Head(comps) \in {<<>>, <<".">>} THEN OpenWalk(dir, Tail(comps))
    ELSE IF Head(comps) = <<"..">> THEN OpenWalk(Parent(dir), Tail(comps))
    ELSE IF Append(dir, Head(comps)) \in Dirs
         THEN OpenWalk(Append(dir, Head(comps)), Tail(comps))
    ELSE [ok |-> FALSE, path |-> dir]

OpenForWrite(root, text) ==
    OpenWalk(IF text # <<>> /\ Head(text) = "/" THEN <<>> ELSE root,
             Components(text, {"/"}))

-----------------------------------------------------------------------------
(* resolve_local_media_path                                                 *)

LocalRaise(message) == [kind |-> "raise", message |-> message, path |-> <<>>]

resolve_local_media_path(filename, platform) ==
    IF filename = <<>> THEN LocalRaise("Local filename is required")
    ELSE IF \E i \in 1..Len(filename) : filename[i] \in PathSeps(platform)
    THEN LocalRaise("Invalid local filename")
    ELSE LET candidate_path == AbsJoin(OutputRoot, filename, PathSeps(platform))
         IN IF ~StartsWithRoot(candidate_path)
            THEN LocalRaise("Local filename resolves outside of output directory")
            ELSE [kind |-> "return", message |-> "-", path |-> candidate_path]

\* the local filenames asked for
LocalFilenames ==
    {<<>>, <<"a.png">>, <<".">>, <<"..">>,
     <<"..", "/", "..", "/", "etc", "/", "passwd">>,
     <<"..", "\\", "..", "\\", "etc", "\\", "passwd">>,
     <<"sub", "/", "a.png">>, <<"/", "etc", "/", "passwd">>,
     <<"..", "/", "output2", "/", "a.png">>}

Platforms == {"posix", "nt"}

-----------------------------------------------------------------------------
(* persist_media_locally                                                    *)

\* at most this many descriptors in one call of persist_media_locally
MaxItems == 2

\* a remote filename: the text before its extension, and the extension
\* ("" when it has none); index is set in a name made up from the job id
RemoteName(stem, ext) == [stem |-> stem, ext |-> ext, index |-> 0]

\* os.path.splitext(remote_filename)[1]
SplitExt(name) == name.ext

\* the descriptors handed to persist_media_locally: dicts with or without a
\* filename extension and a format hint (with or without its dot), and a
\* dict without a filename
PersistItems ==
    {[name |-> RemoteName("a", ".png"), format |-> <<>>],
     [name |-> RemoteName("a", ".png"), format |-> <<"webp">>],
     [name |-> RemoteName("clip", ""), format |-> <<"webp">>],
     [name |-> RemoteName("clip", ""), format |-> <<".", "webp">>],
     [name |-> RemoteName("", ""), format |-> <<>>]}

\* item.get("filename") or f"{prompt_id}_{index}"
remote_filename(item, index) ==
    IF item.name.stem = "" THEN [stem |-> "<prompt_id>_", ext |-> "", index |-> index]
    ELSE item.name

\* the job ids: an ordinary one and two that hold path separators
PersistJobIds == {<<"abc123">>, <<"..", "/", "evil">>, <<"sub", "/", "x">>}
Categories == {"images", "videos"}

RECURSIVE SeqsUpTo(_, _)
SeqsUpTo(S, n) ==
    IF n = 0 THEN {<<>>}
    ELSE LET shorter == SeqsUpTo(S, n - 1)
         IN shorter \cup {Append(q, x) : q \in {p \in shorter : Len(p) = n - 1}, x \in S}

\* what GET /view answers: a status and a Content-Type header ("" when absent)
ContentTypes == {"", "image/jpeg", "application/x-unknown"}
DownloadAnswers ==
    {[status |-> "200", content_type |-> ct] : ct \in ContentTypes}
    \cup {[status |-> "404", content_type |-> ""],
          [status |-> "transport_error", content_type |-> ""]}

\* mimetypes.guess_extension
guess_extension(content_type) ==
    CASE content_type = "image/jpeg" -> ".jpg"
      [] content_type = "image/png" -> ".png"
      [] content_type = "video/mp4" -> ".mp4"
      [] OTHER -> NoneValue

\* ".mp4" if media_category == "videos" else ".png"
CategoryDefault(category) == IF category = "videos" THEN <<".mp4">> ELSE <<".png">>

\* format_hint.lstrip('.')
RECURSIVE LStripDots(_)
LStripDots(text) ==
    IF text # <<>> /\ Head(text) \in {".", ".."} THEN LStripDots(Tail(text)) ELSE text

\* a mutant of persist_extension: the format hint is looked at first
persist_extension_hint_first(name, format_hint, content_type, category) ==
    IF format_hint # <<>> THEN <<".">> \o LStripDots(format_hint)
    ELSE IF SplitExt(name) # "" THEN <<SplitExt(name)>>
    ELSE IF content_type # "" /\ guess_extension(content_type) # NoneValue
         THEN <<guess_extension(content_type)>>
    ELSE CategoryDefault(category)

\* lines 942-950: the extension of the local file, as text
persist_extension(name, format_hint, content_type, category) ==
    IF SplitExt(name) # "" THEN <<SplitExt(name)>>
    ELSE IF format_hint # <<>> THEN <<".">> \o LStripDots(format_hint)
    ELSE IF content_type # ""
         THEN (IF guess_extension(content_type) # NoneValue
               THEN <<guess_extension(content_type)>>
               ELSE CategoryDefault(category))
    ELSE CategoryDefault(category)

\* f"{index:02d}" and uuid.uuid4().hex as text
IndexText(index) == <<"01", "02", "03", "04", "05">>[index]
UuidText(n) == <<"u1", "u2", "u3", "u4", "u5", "u6", "u7", "u8", "u9">>[n]

\* a mutant of local_filename: the random part is left out
local_filename_no_uuid(prompt_id, category, index, uuid, extension) ==
    prompt_id \o <<"_", category, "_", IndexText(index)>> \o extension

\* f"{prompt_id}_{media_category}_{index:02d}_{uuid.uuid4().hex}{extension}"
local_filename(prompt_id, category, index, uuid, extension) ==
    prompt_id \o <<"_", category, "_", IndexText(index), "_", UuidText(uuid)>> \o extension

\* a mutant of on_bad_status: the descriptor is skipped and the batch goes on
on_bad_status_skip(status) == "skip"

\* lines 934-939: response.close() and raise ValueError
on_bad_status(status) == "raise"

NoPersistError == [exc |-> "-", filename |-> RemoteName("", ""), status |-> "-"]

PersistIdle ==
    [pc |-> "idle", prompt_id |-> <<>>, category |-> "images", items |-> <<>>,
     index |-> 0, saved_items |-> <<>>, result |-> <<>>, error |-> NoPersistError,
     statuses |-> <<>>]

PersistCalls == {1, 2}

\* lines 901-908: an empty batch returns [] at once
PersistStart(c) ==
    /\ pst[c].pc = "idle"
    /\ up.pc = "idle"
    /\ IF c = 1
       THEN \E id \in PersistJobIds, cat \in Categories,
               items \in SeqsUpTo(PersistItems, MaxItems) :
               pst' = [pst EXCEPT ![c] =
                          [PersistIdle EXCEPT !.pc = IF items = <<>> THEN "returned" ELSE "loop",
                                              !.prompt_id = id, !.category = cat,
                                              !.items = items, !.index = 1]]
       ELSE \* a second call, for the first descriptor of the first call
            /\ pst[1].pc # "idle"
            /\ pst[1].items # <<>>
            /\ pst' = [pst EXCEPT ![c] =
                          [PersistIdle EXCEPT !.pc = "loop",
                                              !.prompt_id = pst[1].prompt_id,
                                              !.category = pst[1].category,
                                              !.items = <<pst[1].items[1]>>, !.index = 1]]
    /\ UNCHANGED <<written, uuids, up, tvars, gvars, rvars, cvars, wvars, xvars>>

\* the record of one saved file (lines 968-987), with the Content-Type it
\* was downloaded with
MediaRecord(local, name, item, content_type, extension) ==
    [filename |-> local, local_path |-> local, original_name |-> name,
     format |-> item.format, content_type |-> content_type, extension |-> extension]

\* lines 910-987: one pass of the loop, and the return after the last one
PersistItem(c) ==
    /\ pst[c].pc = "loop"
    /\ \E answer \in DownloadAnswers :
          LET p == pst[c]
              item == p.items[p.index]
              name == remote_filename(item, p.index)
              extension == persist_extension(name, item.format, answer.content_type, p.category)
              local == local_filename(p.prompt_id, p.category, p.index, uuids + 1, extension)
              opened == OpenForWrite(OutputRoot, local)
              saved == Append(p.saved_items,
                              MediaRecord(local, name, item, answer.content_type, extension))
              last == p.index = Len(p.items)
              q == [p EXCEPT !.statuses = Append(@, answer.status)]
          IN IF answer.status = "transport_error"
             THEN /\ pst' = [pst EXCEPT ![c] =
                                [q EXCEPT !.pc = "raised",
                                          !.error = [exc |-> "RequestException",
                                                     filename |-> RemoteName("", ""),
                                                     status |-> "-"]]]
                  /\ UNCHANGED <<written, uuids>>
             ELSE IF answer.status # "200"
             THEN /\ IF on_bad_status(answer.status) = "raise"
                     THEN pst' = [pst EXCEPT ![c] =
                                     [q EXCEPT !.pc = "raised",
                                               !.error = [exc |-> "ValueError",
                                                          filename |-> name,
                                                          status |-> answer.status]]]
                     ELSE pst' = [pst EXCEPT ![c] =
                                     [q EXCEPT !.pc = IF last THEN "returned" ELSE "loop",
                                               !.index = @ + 1,
                                               !.result = IF last THEN p.saved_items ELSE @]]
                  /\ UNCHANGED <<written, uuids>>
             ELSE IF ~opened.ok
             THEN /\ pst' = [pst EXCEPT ![c] =
                                [q EXCEPT !.pc = "raised",
                                          !.error = [exc |-> "OSError", filename |-> name,
                                                     status |-> "-"]]]
                  /\ uuids' = uuids + 1
                  /\ UNCHANGED written
             ELSE /\ written' = written \cup {[path |-> opened.path, by |-> <<c, p.index>>]}
                  /\ uuids' = uuids + 1
                  /\ pst' = [pst EXCEPT ![c] =
                                [q EXCEPT !.pc = IF last THEN "returned" ELSE "loop",
                                          !.index = @ + 1,
                                          !.saved_items = saved,
                                          !.result = IF last THEN saved ELSE @]]
    /\ UNCHANGED <<up, tvars, gvars, rvars, cvars, wvars, xvars>>

-----------------------------------------------------------------------------
(* The three upload entry points                                            *)

\* the files stored under the output root
StoredFiles == {Append(OutputRoot, <<"a.png">>)}

\* the name of an upload: a fixed prefix, uuid.uuid4().hex and the extension
UploadName(prefix, uuid, extension) ==
    [prefix |-> prefix, uuid |-> uuid, extension |-> extension]
NoName == UploadName("-", 0, "-")

\* an error, with the HTTP status its message carries ("-" when it carries none)
UploadRaiseStatus(exc, message, status) ==
    [kind |-> "raise", exc |-> exc, message |-> message, status |-> status, post |-> <<>>]
UploadRaise(exc, message) == UploadRaiseStatus(exc, message, "-")

\* requests.post(f"{COMFYUI_URL}/upload/image", data={'type': ..., 'overwrite': 'true'},
\*               files={'image': (upload_name, ...)})
UploadPost(upload_name, image_type, content_type) ==
    [kind |-> "post", exc |-> "-", message |-> "-", status |-> "-",
     post |-> [endpoint |-> "/upload/image", name |-> upload_name, type |-> image_type,
               overwrite |-> "true", content_type |-> content_type]]

\* lines 805-825: download the engine's file and build the upload
upload_image_to_comfy(filename, view, uuid) ==
    IF view.status = "transport_error"
    THEN UploadRaise("RequestException", "-")
    ELSE IF view.status # "200"
    THEN UploadRaiseStatus("ValueError", "Unable to retrieve source image", view.status)
    ELSE UploadPost(UploadName("video_source_", uuid,
                               IF SplitExt(filename) # "" THEN SplitExt(filename) ELSE ".png"),
                    "input",
                    IF view.content_type # "" THEN view.content_type ELSE "image/png")

\* lines 835-853
upload_image_bytes_to_comfy(content_bytes, filename, mime_type, image_type, uuid) ==
    IF content_bytes = "empty"
    THEN UploadRaise("ValueError", "Empty image content provided")
    ELSE LET extension ==
                 IF SplitExt(filename) # "" THEN SplitExt(filename)
                 ELSE IF guess_extension(mime_type) # NoneValue THEN guess_extension(mime_type)
                 ELSE ".png"
         IN UploadPost(UploadName("user_upload_", uuid, extension), image_type,
                       IF mime_type # "" THEN mime_type ELSE "image/png")

\* a data URL: whether it holds a comma, the mime type of its header
\* ("" when absent) and its payload
DataUrls ==
    {[comma |-> FALSE, mime |-> "", payload |-> "empty"]}
    \cup {[comma |-> TRUE, mime |-> m, payload |-> p] :
            m \in {"", "image/jpeg"}, p \in {"bytes", "empty", "bad_padding"}}

\* lines 862-883
upload_image_data_url_to_comfy(data_url, filename, uuid) ==
    IF ~data_url.comma
    THEN UploadRaise("ValueError", "Invalid image data URL")
    ELSE IF data_url.payload = "bad_padding"
    THEN UploadRaise("ValueError", "Invalid base64 image content")
    ELSE upload_image_bytes_to_comfy(data_url.payload, filename,
                                     IF data_url.mime # "" THEN data_url.mime ELSE "image/png",
                                     "input", uuid)

\* mimetypes.guess_type(path)[0] or 'image/png'
guess_type(path) == "image/png"

\* lines 992-1007: what upload_local_media_to_comfy does with the file
\* system before it uploads
LocalAccess(resolved) ==
    IF resolved.kind = "raise" THEN [fs |-> <<>>, kind |-> "raise", exc |-> "ValueError",
                                      message |-> resolved.message]
    ELSE IF resolved.path \notin StoredFiles \cup Dirs
    THEN [fs |-> <<"exists">>, kind |-> "raise", exc |-> "ValueError",
          message |-> "Local media file not found"]
    ELSE IF resolved.path \in Dirs
    THEN [fs |-> <<"exists", "open">>, kind |-> "raise", exc |-> "IsADirectoryError",
          message |-> "-"]
    ELSE [fs |-> <<"exists", "open">>, kind |-> "read", exc |-> "-", message |-> "-"]

upload_local_media_to_comfy(local, platform, uuid) ==
    LET resolved == resolve_local_media_path(local, platform)
        access == LocalAccess(resolved)
    IN IF access.kind = "raise" THEN UploadRaise(access.exc, access.message)
       ELSE upload_image_bytes_to_comfy("bytes", RemoteName("a", ".png"),
                                        guess_type(resolved.path), "input", uuid)

\* what POST /upload/image answers: a status and, in the body, the name the
\* engine stored the file under
UploadAnswers ==
    {[status |-> "200", name |-> n] : n \in {"as_sent", "renamed"}}
    \cup {[status |-> "500", name |-> "-"], [status |-> "transport_error", name |-> "-"]}

ResponseName(answer, upload_name) ==
    IF answer.name = "as_sent" THEN upload_name
    ELSE [upload_name EXCEPT !.prefix = "renamed_"]

\* a mutant of upload_returned_name: the name in the engine's response
upload_returned_name_from_response(upload_name, response_name) == response_name

\* lines 829-832, 856-859: return upload_name; the response body is not read
upload_returned_name(upload_name, response_name) == upload_name

UploadIdle ==
    [pc |-> "idle", op |-> "-", entry |-> "-", filename |-> <<>>, platform |-> "-",
     resolved |-> LocalRaise("-"), fs |-> <<>>, prepared |-> UploadRaise("-", "-"),
     posts |-> <<>>, response_name |-> NoName, returned |-> NoName, exc |-> "-",
     status |-> "-", answered |-> "-", failed |-> FALSE, queued |-> FALSE]

\* the operations that upload a source image before they submit
UploadOps == {"generate_image_edit", "generate_video_from_image"}

\* a mutant of upload_failure: the operation goes on without the image
upload_failure_swallow(exc) == "continue"

\* lines 1130-1146, 1208-1223: the upload is called outside any try, so
\* its error leaves the operation
upload_failure(exc) == "propagate"

\* lines 828-830, 856-857: raise ValueError(f"...: HTTP {status_code}")
upload_error(status) == [exc |-> "ValueError", status |-> status]

UploadEntries == {"engine_file", "local_file", "data_url"}

\* an operation calls an entry point, which runs up to its POST
UploadStart(entry) ==
    /\ up.pc = "idle"
    /\ \A c \in PersistCalls : pst[c].pc = "idle"
    /\ \E op \in UploadOps :
          \/ /\ entry = "engine_file"
             /\ \E name \in {RemoteName("a", ".png"), RemoteName("clip", "")},
                   view \in DownloadAnswers :
                   LET prepared == upload_image_to_comfy(name, view, uuids + 1)
                   IN up' = [UploadIdle EXCEPT !.pc = prepared.kind, !.op = op,
                                               !.entry = entry,
                                               !.prepared = prepared, !.exc = prepared.exc,
                                               !.status = prepared.status,
                                               !.answered = IF view.status \in {"200", "transport_error"}
                                                            THEN "-" ELSE view.status,
                                               !.failed = prepared.kind = "raise"]
          \/ /\ entry = "data_url"
             /\ \E data_url \in DataUrls, name \in {RemoteName("upload", ".png"),
                                                    RemoteName("upload", "")} :
                   LET prepared == upload_image_data_url_to_comfy(data_url, name, uuids + 1)
                   IN up' = [UploadIdle EXCEPT !.pc = prepared.kind, !.op = op,
                                               !.entry = entry,
                                               !.prepared = prepared, !.exc = prepared.exc,
                                               !.failed = prepared.kind = "raise"]
          \/ /\ entry = "local_file"
             /\ \E local \in LocalFilenames, platform \in Platforms :
                   LET resolved == resolve_local_media_path(local, platform)
                       prepared == upload_local_media_to_comfy(local, platform, uuids + 1)
                   IN up' = [UploadIdle EXCEPT !.pc = prepared.kind, !.op = op,
                                               !.entry = entry,
                                               !.filename = local, !.platform = platform,
                                               !.resolved = resolved,
                                               !.fs = LocalAccess(resolved).fs,
                                               !.prepared = prepared, !.exc = prepared.exc,
                                               !.failed = prepared.kind = "raise"]
    /\ uuids' = IF up'.pc = "post" THEN uuids + 1 ELSE uuids
    /\ UNCHANGED <<pst, written, tvars, gvars, rvars, cvars, wvars, xvars>>

\* the POST and what follows it (lines 822-832, 849-859)
UploadSend ==
    /\ up.pc = "post"
    /\ \E answer \in UploadAnswers :
          LET post == up.prepared.post
              response_name == ResponseName(answer, post.name)
              error == IF answer.status = "transport_error"
                       THEN [exc |-> "RequestException", status |-> "-"]
                       ELSE upload_error(answer.status)
          IN up' = [up EXCEPT
                       !.posts = Append(@, post),
                       !.pc = IF answer.status = "200" THEN "returned" ELSE "raise",
                       !.exc = IF answer.status = "200" THEN "-" ELSE error.exc,
                       !.status = IF answer.status = "200" THEN "-" ELSE error.status,
                       !.answered = IF answer.status \in {"200", "transport_error"}
                                    THEN "-" ELSE answer.status,
                       !.failed = answer.status # "200",
                       !.response_name = IF answer.status = "200" THEN response_name ELSE @,
                       !.returned = IF answer.status = "200"
                                    THEN upload_returned_name(post.name, response_name)
                                    ELSE @]
    /\ UNCHANGED <<pst, written, uuids, tvars, gvars, rvars, cvars, wvars, xvars>>

\* lines 1154-1159, 1225-1254: the operation goes on after the upload and
\* calls queue_prompt
UploadQueue ==
    /\ \/ up.pc = "returned"
       \/ up.pc = "raise" /\ upload_failure(up.exc) = "continue"
    /\ up' = [up EXCEPT !.pc = "queued", !.queued = TRUE]
    /\ UNCHANGED <<pst, written, uuids, tvars, gvars, rvars, cvars, wvars, xvars>>

-----------------------------------------------------------------------------
(* The job templates: a workflow is a dict from node ids to node dicts; the *)
(* node dicts live in a heap and a workflow holds references to them. Of a  *)
(* node dict the model keeps the one input the operations set, as text.     *)

TemplateOps == {"generate_images", "generate_image_edit", "generate_video_from_image"}

\* the node whose text or prompt input the operation sets, and the node
\* whose seed (or length) input it sets
PromptNode(op) ==
    CASE op = "generate_images" -> "6"
      [] op = "generate_image_edit" -> "111"
      [] OTHER -> "93"
SamplerNode(op) ==
    CASE op = "generate_images" -> "10"
      [] op = "generate_image_edit" -> "3"
      [] OTHER -> "98"

\* a workflow whose two nodes are the objects at the references p and s
Workflow(op, p, s) == (PromptNode(op) :> p) @@ (SamplerNode(op) :> s)

\* the module globals loaded at import, and the heap after the import
BASE_WORKFLOW == Workflow("generate_images", 1, 2)
EDIT_WORKFLOW == Workflow("generate_image_edit", 3, 4)
LoadedHeap == << <<"masterpiece">>, <<"seed0">>, <<>>, <<"seed0">> >>

\* the video workflow file as json.load reads it
VideoFile == << <<"video">>, <<"len0">> >>

\* the values a workflow holds, node by node
Deref(workflow, h) == [n \in DOMAIN workflow |-> h[workflow[n]]]

\* load_workflow: new objects with the values of the file
load_workflow(op, h) ==
    [workflow |-> Workflow(op, Len(h) + 1, Len(h) + 2), heap |-> h \o VideoFile]

\* a mutant of json_roundtrip: dict(workflow), which shares the node dicts
json_roundtrip_shallow(op, workflow, h) == [workflow |-> workflow, heap |-> h]

\* json.loads(json.dumps(workflow)): new objects all the way down, with the
\* values of the old ones
json_roundtrip(op, workflow, h) ==
    [workflow |-> Workflow(op, Len(h) + 1, Len(h) + 2),
     heap |-> h \o <<h[workflow[PromptNode(op)]], h[workflow[SamplerNode(op)]]>>]

GenCalls == {1, 2}
Prompts == {"a cat", "a dog"}
Seeds == {"7", "8"}

JobIdle ==
    [pc |-> "idle", op |-> "-", prompt |-> "-", seed |-> "-", workflow |-> <<>>,
     sent |-> <<>>, overlap |-> FALSE]

\* lines 1015, 1100-1104, 1206: the operation takes its copy of the template
GenCopy(c) ==
    /\ jobs[c].pc = "idle"
    /\ \E op \in TemplateOps, prompt \in Prompts, seed \in Seeds :
          LET loaded == IF op = "generate_video_from_image" THEN load_workflow(op, heap)
                        ELSE [workflow |-> IF op = "generate_images" THEN BASE_WORKFLOW
                                           ELSE EDIT_WORKFLOW,
                              heap |-> heap]
              copy == json_roundtrip(op, loaded.workflow, loaded.heap)
          IN /\ heap' = copy.heap
             /\ jobs' = [jobs EXCEPT ![c] =
                            [JobIdle EXCEPT !.pc = "copied", !.op = op, !.prompt = prompt,
                                            !.seed = seed, !.workflow = copy.workflow,
                                            !.overlap = \E d \in GenCalls :
                                                jobs[d].pc \in {"copied", "prompted", "ready"}]]
    /\ UNCHANGED <<mvars, gvars, rvars, cvars, wvars, xvars>>

\* lines 1017-1035: generate_images appends the prompt to the text its copy
\* holds; lines 1106-1107 and 1228-1229: the others store the prompt
GenSetPrompt(c) ==
    /\ jobs[c].pc = "copied"
    /\ LET ref == jobs[c].workflow[PromptNode(jobs[c].op)]
       IN heap' = [heap EXCEPT ![ref] = IF jobs[c].op = "generate_images"
                                         THEN @ \o <<jobs[c].prompt>>
                                         ELSE <<jobs[c].prompt>>]
    /\ jobs' = [jobs EXCEPT ![c].pc = "prompted"]
    /\ UNCHANGED <<mvars, gvars, rvars, cvars, wvars, xvars>>

\* lines 1060-1071, 1113-1117, 1246-1251: the seed (the length, for a video)
GenSetSampler(c) ==
    /\ jobs[c].pc = "prompted"
    /\ LET ref == jobs[c].workflow[SamplerNode(jobs[c].op)]
       IN heap' = [heap EXCEPT ![ref] = <<jobs[c].seed>>]
    /\ jobs' = [jobs EXCEPT ![c].pc = "ready"]
    /\ UNCHANGED <<mvars, gvars, rvars, cvars, wvars, xvars>>

\* queue_prompt(workflow, client_id): the workflow is serialized as it is now
GenQueue(c) ==
    /\ jobs[c].pc = "ready"
    /\ jobs' = [jobs EXCEPT ![c].pc = "sent", ![c].sent = Deref(jobs[c].workflow, heap)]
    /\ UNCHANGED <<heap, mvars, gvars, rvars, cvars, wvars, xvars>>

-----------------------------------------------------------------------------
(* Two watched jobs and the endpoint setting. The requests of queue_prompt, *)
(* get_media_outputs and of the WebSocket URL read the module globals       *)
(* COMFYUI_URL, COMFYUI_HOST and COMFYUI_PORT when they are made; the three *)
(* are set together by apply_comfy_endpoint and are one variable here.      *)

\* the endpoint the module starts with and one a user may set
DefaultEndpoint == "http://127.0.0.1:8188"
Endpoints == {DefaultEndpoint, "http://other:8188"}

WatchCalls == {1, 2}

WatchIdle ==
    [pc |-> "idle", submitted_to |-> "-", connected_to |-> "-",
     execution_completed |-> FALSE, queried |-> {}, media_items |-> <<>>]

\* lines 431-443, called by the route at 1453-1486 while jobs are watched
ApplyEndpoint ==
    /\ \E url \in Endpoints \ {COMFYUI_URL} : COMFYUI_URL' = url
    /\ UNCHANGED <<watch, mvars, tvars, rvars, cvars, wvars, xvars>>

\* queue_prompt: POST f"{COMFYUI_URL}/prompt" (line 513); the job runs on
\* the engine that got it
WatchSubmit(w) ==
    /\ watch[w].pc = "idle"
    /\ watch' = [watch EXCEPT ![w].pc = "queued", ![w].submitted_to = COMFYUI_URL]
    /\ UNCHANGED <<COMFYUI_URL, mvars, tvars, rvars, cvars, wvars, xvars>>

\* lines 664-691: the WebSocket URL is built from the globals
WatchConnect(w) ==
    /\ watch[w].pc = "queued"
    /\ watch' = [watch EXCEPT ![w].pc = "watching", ![w].connected_to = COMFYUI_URL]
    /\ UNCHANGED <<COMFYUI_URL, mvars, tvars, rvars, cvars, wvars, xvars>>

\* lines 638-653: on_message of call w sets the flag of call w (nonlocal);
\* the engine that runs the job sends its messages to the job's client
WatchMessage(w) ==
    /\ watch[w].pc = "watching"
    /\ watch[w].connected_to = watch[w].submitted_to
    /\ ~watch[w].execution_completed
    /\ watch' = [watch EXCEPT ![w].execution_completed = TRUE]
    /\ UNCHANGED <<COMFYUI_URL, mvars, tvars, rvars, cvars, wvars, xvars>>

\* what an engine answers about a job: media or nothing when it runs the
\* job, nothing when it does not know it
HistoryAnswers(engine, submitted_to) ==
    IF engine = submitted_to THEN {<<>>, <<NormalizeItem(ItemDict)>>} ELSE {<<>>}

\* lines 702, 731, 759: get_media_outputs asks f"{COMFYUI_URL}/history/..."
\* (lines 539, 578); media ends the call
WatchPoll(w) ==
    /\ watch[w].pc = "watching"
    /\ \E media \in HistoryAnswers(COMFYUI_URL, watch[w].submitted_to) :
          watch' = [watch EXCEPT ![w].queried = @ \cup {COMFYUI_URL},
                                 ![w].media_items = media,
                                 ![w].pc = IF media # <<>> THEN "returned" ELSE @]
    /\ UNCHANGED <<COMFYUI_URL, mvars, tvars, rvars, cvars, wvars, xvars>>

\* lines 728, 781-798: the loop ends by timeout after at least one check
WatchTimeout(w) ==
    /\ watch[w].pc = "watching"
    /\ watch[w].queried # {}
    /\ watch' = [watch EXCEPT ![w].pc = "returned"]
    /\ UNCHANGED <<COMFYUI_URL, mvars, tvars, rvars, cvars, wvars, xvars>>

-----------------------------------------------------------------------------
(* Specifications                                                           *)

\* no persist call and no upload is under way, and nothing was written
MIdle ==
    /\ pst = [c \in PersistCalls |-> PersistIdle]
    /\ written = {}
    /\ uuids = 0
    /\ up = UploadIdle

\* the templates are loaded and no operation runs
TIdle ==
    /\ heap = LoadedHeap
    /\ jobs = [c \in GenCalls |-> JobIdle]

\* the endpoint of the environment and no job watched
GIdle ==
    /\ COMFYUI_URL = DefaultEndpoint
    /\ watch = [w \in WatchCalls |-> WatchIdle]

-----------------------------------------------------------------------------
(* OAuth login followed by TOTP, with ENABLE_OAUTH_LOGIN set: one client    *)
(* that can pass the OAuth step of every account and holds no               *)
(* authenticator, so that it can enter only codes of secrets it was shown.  *)

Absent == "<absent>"

\* the addresses Google may report; lower() folds the first two together
Emails == {"a@x", "A@x", "b@x", "c@x"}
lower(email) == IF email = "A@x" THEN "a@x" ELSE email
Accounts == {lower(email) : email \in Emails}

ALLOWED_USERS == {"a@x", "b@x"}

\* lines 128-133
is_user_allowed(email) ==
    IF ALLOWED_USERS = {} THEN TRUE ELSE lower(email) \in ALLOWED_USERS

\* a secret is named by where it came from; pyotp.random_base32() gives a
\* fresh one, and an account is given one at most once
NoSecret == <<>>
FileSecret(account) == <<"totp_secrets.json", account>>
random_base32(account) == <<"random_base32", account>>

\* load_totp_secrets(): the file holds the secret of one enrolled account
LoadedSecrets == [account \in Accounts |-> IF account = "a@x" THEN FileSecret(account)
                                           ELSE NoSecret]

\* lines 136-137
get_user_totp_secret(secrets, email) == secrets[lower(email)]

\* lines 140-147: the dict after the call, and the secret returned
ensure_user_totp_secret(secrets, email) ==
    LET normalized == lower(email)
    IN IF secrets[normalized] = NoSecret
       THEN [secrets |-> [secrets EXCEPT ![normalized] = random_base32(normalized)],
             secret |-> random_base32(normalized)]
       ELSE [secrets |-> secrets, secret |-> secrets[normalized]]

\* a code is named by the secret it was computed from; totp.verify accepts
\* the codes of its own secret
WrongCode == <<"000000">>
totp_verify(secret, code) == code = secret

NoSession ==
    [user_email |-> Absent, google_sub |-> Absent, pending_2fa |-> Absent,
     two_fa_verified |-> Absent, needs_2fa_setup |-> Absent,
     next_url |-> Absent, oauth_nonce |-> Absent]

Redirect(target) == [kind |-> "redirect", target |-> target, provisioning_uri |-> NoSecret]
Render(template, uri) == [kind |-> "render", target |-> template, provisioning_uri |-> uri]
NoPage == [kind |-> "-", target |-> "-", provisioning_uri |-> NoSecret]

\* lines 150-157, with ENABLE_OAUTH_LOGIN set
is_authenticated(s) ==
    s.user_email # Absent /\ s.google_sub # Absent /\ s.two_fa_verified = "True"

\* lines 190-191, for a request without a next argument
get_next_url(s) == IF s.next_url # Absent THEN s.next_url ELSE "index"

\* lines 202-216
LoginPage ==
    /\ page' = IF is_authenticated(session) THEN Redirect("index")
               ELSE Render("login.html", NoSecret)
    /\ UNCHANGED <<TOTP_SECRETS, session, known, dvars, rvars, cvars, wvars, mvars, tvars, gvars>>

\* lines 219-230: the page to come back to and a nonce are kept in the session
AuthGoogle ==
    /\ \E next_url \in {"/", "/gallery"} :
          session' = [session EXCEPT !.next_url = next_url, !.oauth_nonce = "uuid4"]
    /\ page' = Redirect("accounts.google.com")
    /\ UNCHANGED <<TOTP_SECRETS, known, dvars, rvars, cvars, wvars, mvars, tvars, gvars>>

\* what Google reports of the account that logged in
UserInfos == [email : Emails \cup {NoneValue}, sub : {"sub", NoneValue}]

\* lines 233-284
AuthGoogleCallback ==
    /\ \E token_ok \in BOOLEAN, userinfo \in UserInfos :
          IF ~token_ok \/ userinfo.email = NoneValue \/ userinfo.sub = NoneValue
          THEN /\ session' = NoSession
               /\ page' = Redirect("login_page?error=oauth_error")
               /\ UNCHANGED TOTP_SECRETS
          ELSE IF ~is_user_allowed(userinfo.email)
          THEN /\ session' = NoSession
               /\ page' = Redirect("login_page?error=unauthorized")
               /\ UNCHANGED TOTP_SECRETS
          ELSE LET accepted == [session EXCEPT !.user_email = lower(userinfo.email),
                                               !.google_sub = userinfo.sub,
                                               !.pending_2fa = "True",
                                               !.two_fa_verified = Absent,
                                               !.oauth_nonce = Absent]
               IN IF get_user_totp_secret(TOTP_SECRETS, userinfo.email) # NoSecret
                  THEN /\ session' = [accepted EXCEPT !.needs_2fa_setup = Absent]
                       /\ page' = Redirect("two_factor")
                       /\ UNCHANGED TOTP_SECRETS
                  ELSE /\ TOTP_SECRETS' =
                              ensure_user_totp_secret(TOTP_SECRETS, userinfo.email).secrets
                       /\ session' = [accepted EXCEPT !.needs_2fa_setup = "True"]
                       /\ page' = Redirect("two_factor_setup")
    /\ UNCHANGED <<known, dvars, rvars, cvars, wvars, mvars, tvars, gvars>>

\* the codes the client can enter
Codes == known \cup {WrongCode}

\* lines 313-316 and 339-342: the session of a verified login
Verified(s) ==
    [s EXCEPT !.two_fa_verified = "True", !.pending_2fa = "False",
              !.needs_2fa_setup = Absent, !.next_url = Absent]

\* lines 287-316
TwoFactor ==
    /\ \E method \in {"GET", "POST"}, code \in Codes :
          LET email == session.user_email
          IN IF session.pending_2fa # "True" \/ email = Absent
             THEN /\ page' = Redirect("login_page")
                  /\ UNCHANGED session
             ELSE IF session.needs_2fa_setup = "True"
             THEN /\ page' = Redirect("two_factor_setup")
                  /\ UNCHANGED session
             ELSE IF get_user_totp_secret(TOTP_SECRETS, email) = NoSecret
             THEN /\ session' = [session EXCEPT !.needs_2fa_setup = "True"]
                  /\ page' = Redirect("two_factor_setup")
             ELSE IF method = "POST"
                     /\ totp_verify(get_user_totp_secret(TOTP_SECRETS, email), code)
             THEN /\ session' = Verified(session)
                  /\ page' = Redirect(get_next_url(session))
             ELSE /\ page' = Render("two_factor_verify.html", NoSecret)
                  /\ UNCHANGED session
    /\ UNCHANGED <<TOTP_SECRETS, known, dvars, rvars, cvars, wvars, mvars, tvars, gvars>>

\* lines 319-352: the provisioning URI is computed from the secret before
\* the method is looked at, and rendered unless a POST carries a good code
TwoFactorSetup ==
    /\ \E method \in {"GET", "POST"}, code \in Codes :
          LET email == session.user_email
          IN IF session.pending_2fa # "True" \/ email = Absent
             THEN /\ page' = Redirect("login_page")
                  /\ UNCHANGED <<session, TOTP_SECRETS, known>>
             ELSE LET ensured == ensure_user_totp_secret(TOTP_SECRETS, email)
                  IN /\ TOTP_SECRETS' = ensured.secrets
                     /\ IF method = "POST" /\ totp_verify(ensured.secret, code)
                        THEN /\ session' = Verified(session)
                             /\ page' = Redirect(get_next_url(session))
                             /\ UNCHANGED known
                        ELSE /\ page' = Render("two_factor_setup.html", ensured.secret)
                             /\ known' = known \cup {ensured.secret}
                             /\ UNCHANGED session
    /\ UNCHANGED <<dvars, rvars, cvars, wvars, mvars, tvars, gvars>>

\* lines 355-361
Logout ==
    /\ session' = NoSession
    /\ page' = Redirect("login_page")
    /\ UNCHANGED <<TOTP_SECRETS, known, dvars, rvars, cvars, wvars, mvars, tvars, gvars>>

-----------------------------------------------------------------------------
(* The tags table of utils/db.py: id INTEGER PRIMARY KEY AUTOINCREMENT and  *)
(* no uniqueness constraint on name; no row is ever deleted, so that the    *)
(* id of a row is its position.                                             *)

TagNames == {"1girl", "solo"}
TagCategories == {"General", "Artist"}
PostCounts == {10, 20}
TagDicts == [name : TagNames, category : TagCategories, post_count : PostCounts]

\* the longest tags_data of a call, and the most rows the table holds
MaxBatch == 2
MaxRows == 4

NoTag == [name |-> "", category |-> "", post_count |-> 0]

\* lines 118-127: executemany of INSERT ... ON CONFLICT(id) DO UPDATE; the
\* statement names no id, each row is given the next one, and no conflict
\* on id arises: every dict is inserted
RECURSIVE InsertMany(_, _)
InsertMany(table, tags_data) ==
    IF tags_data = <<>> THEN table
    ELSE InsertMany(Append(table, Head(tags_data)), Tail(tags_data))

\* SELECT id FROM tags WHERE name = ? and fetchone(): one of the rows of
\* that name, the order being left to the engine
FetchOne(table, name, order) ==
    LET ids == {i \in 1..Len(table) : table[i].name = name}
    IN IF ids = {} THEN 0
       ELSE IF order = "asc" THEN CHOOSE i \in ids : \A j \in ids : i <= j
       ELSE CHOOSE i \in ids : \A j \in ids : i >= j

\* lines 143-153: UPDATE by id when a row of the name is found, else INSERT
RECURSIVE UpdateOrInsert(_, _, _)
UpdateOrInsert(table, tags_data, order) ==
    IF tags_data = <<>> THEN table
    ELSE LET tag == Head(tags_data)
             id == FetchOne(table, tag.name, order)
         IN UpdateOrInsert(IF id # 0
                           THEN [table EXCEPT ![id].post_count = tag.post_count,
                                              ![id].category = tag.category]
                           ELSE Append(table, tag),
                           Tail(tags_data), order)

RECURSIVE LatestOf(_, _)
LatestOf(seen, tags_data) ==
    IF tags_data = <<>> THEN seen
    ELSE LatestOf([seen EXCEPT ![Head(tags_data).name] = Head(tags_data)], Tail(tags_data))

\* lines 106-162: one call, in one transaction; an sqlite3 error rolls it
\* back and 0 is returned
UpsertTags ==
    /\ \E tags_data \in SeqsUpTo(TagDicts, MaxBatch), outcome \in {"commit", "rollback"},
          order \in {"asc", "desc"} :
          /\ Len(tags) + Len(tags_data) <= MaxRows
          /\ IF tags_data = <<>>
             THEN /\ upserted' = 0
                  /\ UNCHANGED <<tags, latest>>
             ELSE IF outcome = "rollback"
             THEN /\ upserted' = 0
                  /\ UNCHANGED <<tags, latest>>
             ELSE /\ tags' = UpdateOrInsert(InsertMany(tags, tags_data), tags_data, order)
                  /\ latest' = LatestOf(latest, tags_data)
                  /\ upserted' = Len(tags_data)
    /\ UNCHANGED <<avars, rvars, cvars, wvars, mvars, tvars, gvars>>

\* the secrets of the file are loaded and nobody is logged in
AIdle ==
    /\ TOTP_SECRETS = LoadedSecrets
    /\ session = NoSession
    /\ page = NoPage
    /\ known = {}

\* init_db() with no tags.csv: the table exists and is empty
DIdle ==
    /\ tags = <<>>
    /\ latest = [name \in TagNames |-> NoTag]
    /\ upserted = 0

RIdle ==
    /\ rPc = "off"
    /\ rPromptId = OwnId
    /\ rTargets = <<>>
    /\ rKey = "images"
    /\ rPerJob = FailedPerJob("http_error")
    /\ rFull = [status |-> "http_error", data |-> <<>>]
    /\ rResult = NoResult

WIdle ==
    /\ cOp = "-"
    /\ qAnswer = [kind |-> "-", status |-> NoneValue, body |-> NoneValue]
    /\ qResult = [kind |-> "-", exc |-> "-", status |-> NoneValue, text |-> NoneValue,
                  hasId |-> FALSE]
    /\ cOutcome = "-"
    /\ cResult = NoOpResult
    /\ wPc = "idle"
    /\ wArgs = NoArgs
    /\ now = ClockStart
    /\ start_time = 0
    /\ last_check = 0
    /\ media_items = <<>>
    /\ execution_completed = FALSE
    /\ ws = NoWs
    /\ wReturn = <<>>
    /\ hist = NoHist
    /\ MIdle
    /\ TIdle
    /\ GIdle
    /\ AIdle
    /\ DIdle

\* get_media_outputs applied once to arguments and engine answers drawn
\* from the bounded sets
RInit ==
    /\ rPc = "input"
    /\ rPromptId = OwnId
    /\ rTargets \in TargetChoices
    /\ rKey \in MediaKeyChoices
    /\ \E S \in EngineStates :
          /\ rPerJob \in PerJobAnswers(S)
          /\ rFull \in FullAnswers(S)
    /\ rResult = NoResult
    /\ WIdle

Resolve ==
    /\ rPc = "input"
    /\ rPc' = "done"
    /\ rResult' = get_media_outputs(rPromptId, rTargets, rKey, rPerJob, rFull)
    /\ UNCHANGED <<rPromptId, rTargets, rKey, rPerJob, rFull, cvars, wvars, ovars>>

RNext == Resolve

SpecResolver == RInit /\ [][RNext]_vars

\* one operation: a submission followed by the watcher, or the watcher alone
Init == RIdle /\ WIdle

Next ==
    \/ Submit
    \/ DirectCall
    \/ Connect
    \/ ListenerOpen
    \/ ListenerMessage
    \/ ListenerEnd
    \/ ImmediateCheck
    \/ PollCheck
    \/ GraceCheck
    \/ PollSleep
    \/ CloseAndReturn
    \/ AfterWait

Spec == Init /\ [][Next]_vars

\* calls of persist_media_locally, or one call of an upload entry point
MNext ==
    \/ \E c \in PersistCalls : PersistStart(c)
    \/ \E c \in PersistCalls : PersistItem(c)
    \/ \E entry \in UploadEntries : UploadStart(entry)
    \/ UploadSend
    \/ UploadQueue

SpecMedia == Init /\ [][MNext]_vars

\* two calls of the generate_* operations, step by step, up to queue_prompt
TNext ==
    \/ \E c \in GenCalls : GenCopy(c)
    \/ \E c \in GenCalls : GenSetPrompt(c)
    \/ \E c \in GenCalls : GenSetSampler(c)
    \/ \E c \in GenCalls : GenQueue(c)

SpecTemplates == Init /\ [][TNext]_vars

\* two jobs submitted and watched while the endpoint setting may change
GNext ==
    \/ ApplyEndpoint
    \/ \E w \in WatchCalls : WatchSubmit(w)
    \/ \E w \in WatchCalls : WatchConnect(w)
    \/ \E w \in WatchCalls : WatchMessage(w)
    \/ \E w \in WatchCalls : WatchPoll(w)
    \/ \E w \in WatchCalls : WatchTimeout(w)

SpecEndpoint == Init /\ [][GNext]_vars

\* the requests of one client to the login routes, in any order
ANext ==
    \/ LoginPage
    \/ AuthGoogle
    \/ AuthGoogleCallback
    \/ TwoFactor
    \/ TwoFactorSetup
    \/ Logout

SpecAuth == Init /\ [][ANext]_vars

\* calls of upsert_tags, one after the other
DNext == UpsertTags

SpecTags == Init /\ [][DNext]_vars

\* the watcher runs in the thread of its caller, which is never suspended for
\* good: each step it can take is taken
FairSpec == Spec /\ WF_vars(WatcherStep)

-----------------------------------------------------------------------------
(* Properties of wait_for_completion and queue_prompt (Spec, FairSpec)      *)

Exited == wPc \in {"returned", "raised"}

\* C1: wait_for_completion never raises on timeout: a call whose loop ended
\* by timeout returns, and a call during which no resolver call produced
\* media returns the empty list, for every max_wait and engine behaviour.
ThmC1 ==
    /\ (Exited /\ hist.left = "timeout" => wPc = "returned")
    /\ (Exited /\ ~hist.produced => wPc = "returned" /\ wReturn = <<>>)

WitC1 ==
    /\ wPc = "returned"
    /\ wArgs.max_wait = 0
    /\ hist.left = "timeout"
    /\ ~hist.produced
    /\ ws.exists = FALSE
    /\ wReturn = <<>>

\* C2: wait_for_completion always terminates: the loop body is entered only
\* while elapsed < max_wait, at most one resolver call follows the loop, and
\* every call ends, whatever the listener does.
ThmC2 ==
    /\ [](wPc \in {"grace", "sleep"} => hist.bodyElapsed < wArgs.max_wait)
    /\ [](hist.afterLoop <= 1)
    /\ [](wPc = "exit" /\ hist.left = "timeout" => now - start_time >= wArgs.max_wait)
    /\ (wPc = "connect" ~> Exited)

WitC2 ==
    /\ wPc = "returned"
    /\ hist.left = "timeout"
    /\ hist.bodyElapsed >= 0
    /\ hist.afterLoop = 1
    /\ wArgs.max_wait = MaxWait
    /\ execution_completed

\* C3: on every exit path of wait_for_completion, an exception included, the
\* event-stream connection created at the start has been closed.
CexC3 == Exited => ws.conn # "open"

Rejected ==
    /\ qAnswer.kind = "http"
    /\ (qAnswer.status # "200" \/ qAnswer.body = "unparsable")

NotWatched == wPc = "idle" /\ hist.calls = 0 /\ cOutcome \in {"failure_result", "raised"}

\* C6 as stated: on a non-200 answer or an unparsable body queue_prompt
\* raises an error that carries the HTTP status and the body text, and the
\* operation makes no watcher or resolver call.
CexC6 ==
    Rejected =>
        /\ qResult.kind = "raise"
        /\ qResult.status = qAnswer.status
        /\ qResult.text = qAnswer.body
        /\ NotWatched

\* C6 as amended: on a non-200 answer queue_prompt raises an error that
\* carries the HTTP status and the body text; on a 200 answer with an
\* unparsable body it raises the JSON decoder's error, which carries no HTTP
\* status; in both cases the error leaves queue_prompt, no job id is
\* returned and the operation makes no watcher or resolver call.
ThmC6 ==
    /\ (qAnswer.kind = "http" /\ qAnswer.status # "200" =>
            /\ qResult.kind = "raise"
            /\ qResult.status = qAnswer.status
            /\ qResult.text = qAnswer.body)
    /\ (qAnswer.kind = "http" /\ qAnswer.status = "200" /\ qAnswer.body = "unparsable" =>
            /\ qResult.kind = "raise"
            /\ qResult.exc = "JSONDecodeError"
            /\ qResult.status = NoneValue)
    /\ (Rejected => ~qResult.hasId /\ NotWatched)

WitC6 ==
    /\ cOp = "generate_image_edit"
    /\ qAnswer.status = "500"
    /\ qAnswer.body = "unparsable"
    /\ cOutcome = "raised"

\* a descriptor in normalized form: a dict of exactly filename, subfolder, type
NormalizedItem(item) ==
    /\ item.kind = "dict"
    /\ item.filename # Missing
    /\ item.subfolder # Missing
    /\ item.type # Missing
    /\ ~item.extra

\* C11: every descriptor wait_for_completion returns, on every return path,
\* has been normalized; no raw engine descriptor is returned.
CexC11 == wPc = "returned" => \A i \in 1..Len(wReturn) : NormalizedItem(wReturn[i])

\* the listener could not be built or started, or it ended while listening
ListenerFailed == ~ws.exists \/ ws.thread = "none" \/ hist.listenerEnded

\* C12: a failure of the listener is not fatal: no listener exception leaves
\* wait_for_completion, and a call whose flag was never set takes the
\* decisions of pure polling: no grace check is made and the returned list
\* is fixed by the last resolver call alone, whatever happened to the listener.
ThmC12 ==
    Exited =>
        /\ hist.raisedBy # "listener"
        /\ (~execution_completed =>
                /\ hist.graceCalls = 0
                /\ (wPc = "returned" =>
                        wReturn = IF hist.lastWhere = "post" THEN hist.lastMedia
                                  ELSE Normalize(hist.lastMedia)))

WitC12 ==
    /\ wPc = "returned"
    /\ hist.listenerEnded
    /\ ws.conn = "closed"
    /\ ~execution_completed
    /\ hist.lastWhere = "poll"
    /\ wReturn = <<NormalizeItem(ItemStr), NormalizeItem(ItemDictBare)>>

-----------------------------------------------------------------------------
(* Properties of get_media_outputs (SpecResolver)                           *)

RTargets == target_nodes_or_default(rTargets)
TargetSet == {RTargets[i] : i \in 1..Len(RTargets)}
KeySet == LET keys == possible_keys(rKey) IN {keys[i] : i \in 1..Len(keys)}

\* a stored value as the list the resolver is to return for it
Listed(v) == IF v.isList THEN v.list ELSE <<v.scalar>>

\* the outputs dicts the engine's answers hold for the requested job, in the
\* order of the fallback levels
OwnOutputs ==
    (IF rPerJob.status = "ok" /\ rPerJob.data.hasTop THEN <<rPerJob.data.top>> ELSE <<>>)
    \o (IF /\ rPerJob.status = "ok"
           /\ rPromptId \in DOMAIN rPerJob.data.byId
           /\ rPerJob.data.byId[rPromptId].hasOutputs
        THEN <<rPerJob.data.byId[rPromptId].outputs>> ELSE <<>>)
    \o (IF /\ rFull.status = "ok"
           /\ rPromptId \in DOMAIN rFull.data
           /\ rFull.data[rPromptId].hasOutputs
        THEN <<rFull.data[rPromptId].outputs>> ELSE <<>>)

\* the node holds some accepted key
NodeMatches(outputs, n) ==
    HasNode(outputs, n) /\ DOMAIN NodeBlock(outputs, n) \cap KeySet # {}

Matches(outputs) == \E n \in TargetSet : NodeMatches(outputs, n)

SomeMatch == \E i \in 1..Len(OwnOutputs) : Matches(OwnOutputs[i])

\* the first outputs dict with a match, and in it the block of the first
\* target node with an accepted key
Winner ==
    OwnOutputs[CHOOSE i \in 1..Len(OwnOutputs) :
                  /\ Matches(OwnOutputs[i])
                  /\ \A j \in 1..(i - 1) : ~Matches(OwnOutputs[j])]

WinnerBlock ==
    LET first == CHOOSE i \in 1..Len(RTargets) :
                    /\ NodeMatches(Winner, RTargets[i])
                    /\ \A j \in 1..(i - 1) : ~NodeMatches(Winner, RTargets[j])
    IN NodeBlock(Winner, RTargets[first])

\* an answer of the per-job endpoint that is no JSON object ends the call
Searched == rPc = "done" /\ rPerJob.status # "malformed" /\ SomeMatch

\* C7: get_media_outputs never raises, whatever the two endpoints answer,
\* and returns None whenever no target node holds an accepted key at any
\* fallback level.
ThmC7 ==
    rPc = "done" =>
        /\ rResult.kind \in {"list", "none"}
        /\ (~SomeMatch => rResult.kind = "none")

WitC7 ==
    /\ rPc = "done"
    /\ rPerJob.status = "transport_error"
    /\ rFull.status = "malformed"
    /\ rResult.kind = "none"

\* C8: node order dominates key order: the result is a value of the first
\* target node (in caller order) that holds any accepted key, even if a later
\* node holds a key of higher priority.
ThmC8 ==
    Searched =>
        /\ rResult.kind = "list"
        /\ \E k \in DOMAIN WinnerBlock \cap KeySet : rResult.media = Listed(WinnerBlock[k])

WitC8 ==
    /\ rPc = "done"
    /\ rKey = "images"
    /\ rTargets = <<"94", "19">>
    /\ rPerJob.status = "ok"
    /\ rPerJob.data.hasTop
    /\ HasNode(rPerJob.data.top, "94")
    /\ HasNode(rPerJob.data.top, "19")
    /\ DOMAIN NodeBlock(rPerJob.data.top, "94") = {"files"}
    /\ DOMAIN NodeBlock(rPerJob.data.top, "19") = {"images"}
    /\ NodeBlock(rPerJob.data.top, "94")["files"] = ScalarValue(ItemStr)
    /\ NodeBlock(rPerJob.data.top, "19")["images"] = ListValue(<<ItemDict>>)
    /\ rResult.media = <<ItemStr>>

\* the accepted keys of the two media kinds, in order
KeyOrder(kind) ==
    IF kind = "images" THEN <<"images", "image", "files">>
    ELSE <<"videos", "video", "files", "images">>

FirstKeyIn(block, order) ==
    order[CHOOSE i \in 1..Len(order) :
             /\ order[i] \in DOMAIN block
             /\ \A j \in 1..(i - 1) : order[j] \notin DOMAIN block]

\* C9: within one node output block the value under the first key present in
\* the ordered accepted-key list is returned, a list as it is and a scalar
\* wrapped in a one-element list.
ThmC9 ==
    Searched /\ rKey \in {"images", "videos"} =>
        /\ rResult.kind = "list"
        /\ rResult.media = Listed(WinnerBlock[FirstKeyIn(WinnerBlock, KeyOrder(rKey))])

WitC9 ==
    /\ rPc = "done"
    /\ rKey = "images"
    /\ rFull.status = "ok"
    /\ OwnId \in DOMAIN rFull.data
    /\ HasNode(rFull.data[OwnId].outputs, "19")
    /\ DOMAIN NodeBlock(rFull.data[OwnId].outputs, "19") = {"images", "image"}
    /\ NodeBlock(rFull.data[OwnId].outputs, "19")["images"] = ScalarValue(ItemStr)
    /\ NodeBlock(rFull.data[OwnId].outputs, "19")["image"] = ListValue(<<ItemDict>>)
    /\ rResult.media = <<ItemStr>>
    /\ rResult.full

\* C10: the resolver never fabricates a result: a returned list is a value
\* stored in the engine's answers under the outputs of the requested job,
\* for a target node and an accepted key.
ThmC10 ==
    rPc = "done" /\ rResult.kind = "list" =>
        \E i \in 1..Len(OwnOutputs) : \E n \in TargetSet :
            /\ HasNode(OwnOutputs[i], n)
            /\ \E k \in DOMAIN NodeBlock(OwnOutputs[i], n) \cap KeySet :
                  rResult.media = Listed(NodeBlock(OwnOutputs[i], n)[k])

WitC10 ==
    /\ rPc = "done"
    /\ rPerJob.status = "ok"
    /\ rFull.status = "ok"
    /\ OtherId \in DOMAIN rFull.data
    /\ rFull.data[OtherId].hasOutputs
    /\ Matches(rFull.data[OtherId].outputs)
    /\ ~SomeMatch
    /\ rResult.kind = "none"

-----------------------------------------------------------------------------
(* Properties of persist_media_locally                                      *)

\* the files a call wrote
WrittenBy(c) == {w \in written : w.by[1] = c}

\* the records of every call, with the call and the category they belong to
SavedRecords ==
    UNION {{[call |-> c, category |-> pst[c].category, record |-> pst[c].saved_items[i]] :
               i \in 1..Len(pst[c].saved_items)} : c \in PersistCalls}

\* C13: when the download of a descriptor answers an HTTP status other than
\* 200, the call raises a ValueError that names the remote filename and the
\* status and returns no record; the files of the descriptors before it stay
\* written and no descriptor after it is downloaded.
ThmC13 ==
    \A c \in PersistCalls :
        \A k \in 1..Len(pst[c].statuses) :
            pst[c].statuses[k] \notin {"200", "transport_error"} =>
                /\ pst[c].pc = "raised"
                /\ pst[c].error = [exc |-> "ValueError",
                                   filename |-> remote_filename(pst[c].items[k], k),
                                   status |-> pst[c].statuses[k]]
                /\ pst[c].result = <<>>
                /\ Len(pst[c].statuses) = k
                /\ Len(pst[c].saved_items) = k - 1
                /\ {w.by[2] : w \in WrittenBy(c)} = 1..(k - 1)

\* the second descriptor of a batch answers 404 after the first was written
WitC13 ==
    /\ pst[1].pc = "raised"
    /\ pst[1].statuses = <<"200", "404">>
    /\ pst[1].error.status = "404"
    /\ pst[1].error.filename = RemoteName("a", ".png")
    /\ pst[1].result = <<>>
    /\ Cardinality(WrittenBy(1)) = 1
    /\ Len(pst[1].items) = 2

\* C14 as stated: the format hint decides before the
\* extension of the descriptor's filename.
CexC14 ==
    \A s \in SavedRecords :
        s.record.extension =
            IF s.record.format # <<>> THEN <<".">> \o LStripDots(s.record.format)
            ELSE IF SplitExt(s.record.original_name) # ""
                 THEN <<SplitExt(s.record.original_name)>>
            ELSE IF guess_extension(s.record.content_type) # NoneValue
                 THEN <<guess_extension(s.record.content_type)>>
            ELSE CategoryDefault(s.category)

\* C14: the extension of the remote filename decides when there is one; then
\* the format hint; then the extension guessed from the Content-Type; then
\* the default of the category (.mp4 for videos, .png otherwise).
ThmC14 ==
    \A s \in SavedRecords :
        LET r == s.record
            guess == guess_extension(r.content_type)
        IN /\ SplitExt(r.original_name) # "" => r.extension = <<SplitExt(r.original_name)>>
           /\ SplitExt(r.original_name) = "" /\ r.format # <<>> =>
                 r.extension = <<".">> \o LStripDots(r.format)
           /\ SplitExt(r.original_name) = "" /\ r.format = <<>> /\ guess # NoneValue =>
                 r.extension = <<guess>>
           /\ SplitExt(r.original_name) = "" /\ r.format = <<>> /\ guess = NoneValue =>
                 r.extension = (IF s.category = "videos" THEN <<".mp4">> ELSE <<".png">>)

\* a descriptor with the filename a.png and the format hint webp was saved
\* as .png
WitC14 ==
    \E s \in SavedRecords :
        /\ s.record.original_name = RemoteName("a", ".png")
        /\ s.record.format = <<"webp">>
        /\ s.record.extension = <<".png">>

\* C15: no two writes of persist_media_locally (of one call or of two, one
\* after the other or interleaved) go to the same path, and no two records
\* carry the same local filename.
ThmC15 ==
    /\ \A w1, w2 \in written : w1.path = w2.path => w1.by = w2.by
    /\ \A c, d \in PersistCalls :
          \A i \in 1..Len(pst[c].saved_items), j \in 1..Len(pst[d].saved_items) :
              pst[c].saved_items[i].filename = pst[d].saved_items[j].filename =>
                  c = d /\ i = j

\* two interleaved calls persisted the same descriptor of the same job at
\* the same index, and two files exist
WitC15 ==
    /\ pst[1].pc = "returned" /\ pst[2].pc = "returned"
    /\ pst[1].prompt_id = pst[2].prompt_id
    /\ pst[1].items = pst[2].items
    /\ Len(pst[1].result) = 1 /\ Len(pst[2].result) = 1
    /\ pst[1].result[1].extension = pst[2].result[1].extension
    /\ pst[1].result[1].filename # pst[2].result[1].filename
    /\ Cardinality({w.path : w \in written}) = 2

\* C16 as stated: every file written and the local_path of
\* every record lie strictly inside the output root.
CexC16 ==
    /\ \A w \in written : InsideRoot(w.path)
    /\ \A s \in SavedRecords :
          InsideRoot(AbsJoin(OutputRoot, s.record.local_path, {"/"}))

-----------------------------------------------------------------------------
(* Properties of the uploads                                                *)

\* C17 as stated: a local filename that
\* resolve_local_media_path accepts is non-empty, holds no separator of
\* either style and resolves strictly inside the output root, and a
\* rejected one is rejected before the file system is touched.
CexC17 ==
    up.entry = "local_file" =>
        IF up.resolved.kind = "return"
        THEN /\ up.filename # <<>>
             /\ \A i \in 1..Len(up.filename) : up.filename[i] \notin {"/", "\\"}
             /\ InsideRoot(up.resolved.path)
        ELSE /\ up.fs = <<>>
             /\ up.prepared.message # "Local media file not found"

\* C18 as stated: the name returned is the name in
\* the engine's upload response.
CexC18 ==
    up.pc = "returned" =>
        /\ Len(up.posts) = 1
        /\ up.posts[1].overwrite = "true"
        /\ up.returned = up.response_name

\* C18: an entry point that returns has made exactly one POST to
\* /upload/image with overwrite=true, and the name it returns is the name
\* it generated and sent in that POST.
ThmC18 ==
    up.pc = "returned" =>
        /\ Len(up.posts) = 1
        /\ up.posts[1].endpoint = "/upload/image"
        /\ up.posts[1].overwrite = "true"
        /\ up.returned = up.posts[1].name
        /\ up.returned.prefix \in {"video_source_", "user_upload_"}

\* the upload of a data URL returned while the engine's response named the
\* file otherwise
WitC18 ==
    /\ up.pc = "returned"
    /\ up.entry = "data_url"
    /\ Len(up.posts) = 1
    /\ up.response_name # up.returned
    /\ up.returned = up.posts[1].name

-----------------------------------------------------------------------------
(* Properties of the job templates                                          *)

\* what an operation sends when the template is as it was loaded
ExpectedWorkflow(op, prompt, seed) ==
    (PromptNode(op) :> (IF op = "generate_images" THEN <<"masterpiece", prompt>>
                        ELSE <<prompt>>))
    @@ (SamplerNode(op) :> <<seed>>)

\* the references a workflow holds
Refs(workflow) == {workflow[n] : n \in DOMAIN workflow}

\* C19: BASE_WORKFLOW and EDIT_WORKFLOW hold the values they were loaded
\* with after any interleaving of the three operations; the copy of a call
\* shares no node dict with a template or with the copy of another call,
\* and the workflow a call sends is the loaded template with that call's
\* parameters only.
ThmC19 ==
    /\ Deref(BASE_WORKFLOW, heap) = Deref(BASE_WORKFLOW, LoadedHeap)
    /\ Deref(EDIT_WORKFLOW, heap) = Deref(EDIT_WORKFLOW, LoadedHeap)
    /\ \A c \in GenCalls :
          jobs[c].pc # "idle" =>
              /\ Refs(jobs[c].workflow) \cap (Refs(BASE_WORKFLOW) \cup Refs(EDIT_WORKFLOW)) = {}
              /\ \A d \in GenCalls \ {c} :
                    jobs[d].pc # "idle" => Refs(jobs[c].workflow) \cap Refs(jobs[d].workflow) = {}
              /\ jobs[c].pc = "sent" =>
                    jobs[c].sent = ExpectedWorkflow(jobs[c].op, jobs[c].prompt, jobs[c].seed)

\* two calls of generate_images that ran at the same time with different
\* prompts were both sent
WitC19 ==
    /\ jobs[1].pc = "sent" /\ jobs[2].pc = "sent"
    /\ jobs[1].op = "generate_images" /\ jobs[2].op = "generate_images"
    /\ jobs[1].prompt # jobs[2].prompt
    /\ jobs[1].overlap \/ jobs[2].overlap
    /\ jobs[1].sent # jobs[2].sent
    /\ Deref(BASE_WORKFLOW, heap) = Deref(BASE_WORKFLOW, LoadedHeap)

-----------------------------------------------------------------------------
(* Properties of concurrent watchers                                        *)

\* C20: a call of wait_for_completion asks only the engine its job was
\* submitted to, listens to that engine, and no other operation changes the
\* engine it asks.
CexC20 ==
    \A w \in WatchCalls :
        /\ watch[w].queried \subseteq {watch[w].submitted_to}
        /\ watch[w].pc \in {"watching", "returned"} =>
              watch[w].connected_to = watch[w].submitted_to

-----------------------------------------------------------------------------
(* Properties of the listener                                               *)

\* C21 as stated: the flag is set iff a message of the three kinds arrived
\* (executed of a target node, execution_cached, executing with an empty or
\* absent node).
CexC21 == execution_completed = hist.completion

\* C21: the flag is set iff a message of the three kinds arrived whose data
\* field on_message could read (execution_cached needs none; for the other
\* two, data absent or an object); as the set of messages arrived only
\* grows, the flag once set stays set.
ThmC21 == execution_completed = hist.completionRead

\* a completion message was read and the watcher goes on with the flag set
WitC21 ==
    /\ execution_completed
    /\ hist.completionRead
    /\ ws.conn = "open"
    /\ wPc \in {"immediate", "poll", "sleep"}

-----------------------------------------------------------------------------
(* Properties of the poll loop                                              *)

\* C22: once the listener has signalled and a check after the grace sleep
\* has found nothing, the watcher leaves the loop: no call makes a second
\* grace check, and no poll check follows a grace check.
CexC22 ==
    /\ hist.graceCalls <= 1
    /\ hist.lastWhere = "poll" => hist.graceCalls = 0

\* the watcher is in the loop
InLoop == wPc \in {"poll", "grace", "sleep"}

\* C23 as stated: a resolver call in the loop that yields at least one
\* item ends the loop, and what is returned is the items of that call.
CexC23 ==
    hist.lastWhere \in {"poll", "grace"} /\ hist.lastMedia # <<>> =>
        /\ ~InLoop
        /\ wPc = "returned" => wReturn = Normalize(hist.lastMedia)

\* C23: the first resolver call in the loop that yields at least one dict
\* or string item, signalled or not, ends the loop before max_wait has
\* elapsed; it is the last resolver call of the watcher, and its items,
\* normalized, are what is returned.
ThmC23 ==
    hist.loopValidAt # 0 =>
        /\ hist.calls = hist.loopValidAt
        /\ hist.lastWhere \in {"poll", "grace"}
        /\ ~InLoop
        /\ hist.left = "break"
        /\ hist.bodyElapsed < wArgs.max_wait
        /\ media_items = Normalize(hist.lastMedia)
        /\ wPc = "returned" => wReturn = Normalize(hist.lastMedia)

\* the immediate check found nothing, the first poll check found one
\* image while the listener had not signalled, and the call returned it
WitC23 ==
    /\ wPc = "returned"
    /\ hist.calls = 2
    /\ hist.loopValidAt = 2
    /\ hist.lastWhere = "poll"
    /\ ~execution_completed
    /\ wReturn = <<NormalizeItem(ItemDict)>>
    /\ wArgs.max_wait = LongWait
    /\ now - start_time < wArgs.max_wait

-----------------------------------------------------------------------------
(* Properties of the fallback of get_media_outputs                          *)

\* the per-job answer holds a match: a 200 answer with an outputs dict, at
\* top level or under the job id, where a target node holds an accepted key
PerJobMatch ==
    /\ rPerJob.status = "ok"
    /\ \/ rPerJob.data.hasTop /\ Matches(rPerJob.data.top)
       \/ /\ rPromptId \in DOMAIN rPerJob.data.byId
          /\ rPerJob.data.byId[rPromptId].hasOutputs
          /\ Matches(rPerJob.data.byId[rPromptId].outputs)

\* C24: GET /history is requested exactly when the per-job lookup yielded
\* nothing, whatever the reason, and never after a per-job match; a list
\* found in the full history is the one the direct lookup of the job id
\* finds.
CexC24 ==
    rPc = "done" =>
        /\ rResult.full <=> ~PerJobMatch
        /\ rResult.full /\ rResult.kind = "list" =>
              /\ rFull.status = "ok"
              /\ rResult.media =
                    DirectLookup(rPromptId, rFull.data, RTargets, possible_keys(rKey)).media

-----------------------------------------------------------------------------
(* Properties of the upload before submission                               *)

\* C25: queue_prompt is called only after the upload has returned a name;
\* an upload that failed (a non-200 answer of the engine, a bad data URL,
\* empty bytes, a rejected or missing local file, a transport failure)
\* leaves the operation raised with no job submitted, and after a non-200
\* answer the error carries that status.
ThmC25 ==
    /\ up.queued => Len(up.posts) = 1 /\ up.returned # NoName /\ ~up.failed
    /\ up.failed =>
          /\ up.pc = "raise"
          /\ ~up.queued
          /\ up.exc # "-"
          /\ up.answered # "-" => up.exc = "ValueError" /\ up.status = up.answered

\* generate_image_edit uploaded a data URL, the engine answered 500, and
\* the operation raised with that status before queue_prompt
WitC25 ==
    /\ up.op = "generate_image_edit"
    /\ up.entry = "data_url"
    /\ up.pc = "raise"
    /\ Len(up.posts) = 1
    /\ up.status = "500"
    /\ ~up.queued

\* some outputs dict of the job holds a non-empty value under an accepted
\* key of a target node
OutputAvailable ==
    \E i \in 1..Len(OwnOutputs) : \E n \in TargetSet :
        /\ HasNode(OwnOutputs[i], n)
        /\ \E k \in DOMAIN NodeBlock(OwnOutputs[i], n) \cap KeySet :
              Listed(NodeBlock(OwnOutputs[i], n)[k]) # <<>>

\* C26: whenever the well-formed answers of the engine hold a non-empty
\* media list for the job under an accepted key of a target node,
\* get_media_outputs returns a non-empty list; an empty list under an
\* earlier node or key does not mask it.
CexC26 ==
    rPc = "done" /\ rPerJob.status # "malformed" /\ OutputAvailable =>
        rResult.kind = "list" /\ rResult.media # <<>>

\* C27: an operation reports success only with at least one media item: a
\* result with success true carries a non-empty list, and after the watcher
\* returned an empty list generate_images yields a failure result and
\* generate_image_edit and generate_video_from_image raise
ThmC27 ==
    /\ (cResult.kind = "result" /\ cResult.success => cResult.items >= 1)
    /\ (cResult # NoOpResult /\ wPc = "returned" /\ wReturn = <<>> =>
            cResult = IF cOp = "generate_images" THEN OpFailure ELSE OpRaise)

WitC27 ==
    /\ cOp = "generate_images"
    /\ wPc = "returned"
    /\ wReturn = <<>>
    /\ hist.left = "timeout"
    /\ cResult = OpFailure

\* C28: a job is watched only under an engine-issued job id: no operation
\* enters wait_for_completion with an absent prompt_id
CexC28 == cOp \in Operations /\ wPc # "idle" => wArgs.prompt_id # NoneValue

-----------------------------------------------------------------------------
(* Properties of the login routes (SpecAuth)                                *)

\* C29: the secret of an enrolled user is never disclosed again during
\* login: /2fa/setup renders a provisioning URI only in a session flagged
\* needs_2fa_setup, and a client that passed OAuth only is never verified
\* under a secret that was enrolled before
CexC29 ==
    /\ (page = Render("two_factor_setup.html", page.provisioning_uri) =>
            session.needs_2fa_setup = "True")
    /\ (session.two_fa_verified = "True" =>
            TOTP_SECRETS[session.user_email] # FileSecret(session.user_email))

-----------------------------------------------------------------------------
(* Properties of upsert_tags (SpecTags)                                     *)

RowsOf(name) == {i \in 1..Len(tags) : tags[i].name = name}

\* C30: the table holds at most one row for each name, and that row
\* carries the category and post_count of the latest upsert of the name
CexC30 ==
    \A name \in TagNames :
        /\ Cardinality(RowsOf(name)) <= 1
        /\ \A i \in RowsOf(name) : tags[i] = latest[name]

====
